---- MODULE Spec2Model ----
(***************************************************************************)
(* A model of the disk-resident B-tree of sbd2.py (class BTree).           *)
(*                                                                         *)
(* The machine state is the BTree object (root_addr, next_page_addr,       *)
(* free_pages) together with the files it owns: the index file, which      *)
(* holds one pickled BTreeNode per 4096-byte slot, the data file, which    *)
(* holds pickled Records, and the .free file, which holds the free list as *)
(* it was last saved.  Every public operation is one action; the           *)
(* helpers it calls are operators on a machine record, translated from     *)
(* their code line by line.  A Python exception is carried in the field    *)
(* exc: once it is set every later step of the operation is skipped, and   *)
(* what was written to the files before the raise stays written (the       *)
(* interactive shell catches the exception and goes on, lines 684-685).    *)
(* The last section takes insert and delete apart into the calls of        *)
(* _handle_overflow and _handle_underflow they make, one step per call.    *)
(***************************************************************************)
EXTENDS Integers, Sequences, FiniteSets, TLC

\* ---------------------------------------------------------------- bounds
MaxKey == 5
MaxFileLen == 384

Keys == 1..MaxKey
\* the numbers a caller passes to insert and to update
InsertLists == {<<1, 2>>}
NumberLists == {<<1, 2>>, <<3, 1>>}

\* ------------------------------------------------------------- constants
d == 2
max_keys == 2 * d
min_keys == d
RecordSlot == 1024
None == -1

\* -------------------------------------------------- Python list helpers
\* s[a:b] with 0-based bounds, clamped as Python clamps a slice
Slice(s, a, b) ==
    LET lo == IF a < 0 THEN 0 ELSE a
        hi == IF b > Len(s) THEN Len(s) ELSE b
    IN  IF hi <= lo THEN <<>> ELSE SubSeq(s, lo + 1, hi)

\* s.insert(i, x) for 0 <= i
ListInsert(s, i, x) == Slice(s, 0, i) \o <<x>> \o Slice(s, i, Len(s))

\* the list left by s.pop(i), 0 <= i < len(s)
ListPop(s, i) == Slice(s, 0, i) \o Slice(s, i + 1, Len(s))

\* s[i] = x for 0 <= i < len(s)
ListSet(s, i, x) == [s EXCEPT ![i + 1] = x]

\* s[i] for 0 <= i < len(s)
At(s, i) == s[i + 1]

\* s.index(x): 0-based position of the first x, None when list.index raises
ListIndex(s, x) ==
    IF \E j \in 1..Len(s) : s[j] = x
    THEN (CHOOSE j \in 1..Len(s) : s[j] = x /\ \A h \in 1..(j - 1) : s[h] # x) - 1
    ELSE None

\* [a for a in s if a is not None]
RECURSIVE DropNone(_)
DropNone(s) ==
    IF s = <<>> THEN <<>>
    ELSE IF Head(s) = None THEN DropNone(Tail(s))
         ELSE <<Head(s)>> \o DropNone(Tail(s))

RECURSIVE SumSeq(_)
SumSeq(s) == IF s = <<>> THEN 0 ELSE Head(s) + SumSeq(Tail(s))

\* i = 0; while i < len(keys) and key > keys[i]: i += 1
RECURSIVE ScanFrom(_, _, _)
ScanFrom(keys, key, i) ==
    IF i < Len(keys) /\ key > At(keys, i) THEN ScanFrom(keys, key, i + 1) ELSE i

Scan(keys, key) == ScanFrom(keys, key, 0)

\* ------------------------------------------------------------- records
Record(key, numbers) == [key |-> key, numbers |-> numbers]

get_sum(record) == SumSeq(record.numbers)

\* Length of pickle.dumps(Record(key, numbers)) (protocol 4) for a key and
\* numbers in 0..255: 58 bytes for an empty list, 61 for one number, and
\* 60 + 2n for n >= 2 numbers.
PickledSize(record) ==
    LET n == Len(record.numbers)
    IN  IF n = 0 THEN 58 ELSE IF n = 1 THEN 61 ELSE 60 + 2 * n

\* pickle.load succeeds when the stream is positioned at the first byte of
\* a pickle, after its 2-byte protocol header, or after its 11-byte frame
\* header; anywhere else inside a pickle of this size it raises.
ReadableDelta == {0, 2, 11}

\* values returned by search and _read_record: a Record, None or a raise
NoneResult == [kind |-> "None", key |-> 0, numbers |-> <<>>]
RecordResult(record) == [kind |-> "Record", key |-> record.key, numbers |-> record.numbers]
RaiseResult(e) == [kind |-> e, key |-> 0, numbers |-> <<>>]

\* --------------------------------------------------------------- nodes
BTreeNode(is_leaf) ==
    [keys |-> <<>>, addresses |-> <<>>, children |-> <<>>,
     is_leaf |-> is_leaf, parent_addr |-> None]

is_full(node) == Len(node.keys) >= max_keys
is_underflow(node) == Len(node.keys) < min_keys

\* ------------------------------------------------------ machine records
Raise(m, e) == IF m.exc = "none" THEN [m EXCEPT !.exc = e] ELSE m

Ok(m) == m.exc = "none"

\* _get_new_page_addr without lines 94-95: every address is a new one
get_new_page_addr_mint(m) ==
    [addr |-> m.next_page_addr,
     m |-> [m EXCEPT !.next_page_addr = m.next_page_addr + 1]]

\* _get_new_page_addr: the address and the machine after the allocation
get_new_page_addr(m) ==
    IF m.free_pages # <<>>
    THEN [addr |-> m.free_pages[Len(m.free_pages)],
          m |-> [m EXCEPT !.free_pages = SubSeq(m.free_pages, 1, Len(m.free_pages) - 1)]]
    ELSE [addr |-> m.next_page_addr,
          m |-> [m EXCEPT !.next_page_addr = m.next_page_addr + 1]]

\* _free_page_addr: the list grows by addr and is saved to the .free file
free_page_addr(m, addr) ==
    IF ~Ok(m) THEN m
    ELSE [m EXCEPT !.free_pages = Append(m.free_pages, addr),
                   !.free_file = Append(m.free_pages, addr)]

\* the index file as a map from slot to the node pickled there
HasNode(m, addr) == addr \in DOMAIN m.index_file

\* _write_node; seek(addr * 4096) raises TypeError for the address None
write_node(m, addr, node) ==
    IF ~Ok(m) THEN m
    ELSE IF addr = None THEN Raise(m, "TypeError")
    ELSE [m EXCEPT !.index_file =
            [a \in (DOMAIN m.index_file) \cup {addr} |->
                IF a = addr THEN node ELSE m.index_file[a]]]

\* what _read_node raises for a slot that holds no node: TypeError for
\* the address None, EOFError past the last node written, and
\* UnpicklingError in the gap that a write to a later slot left behind
NodeReadError(m, addr) ==
    IF addr = None THEN "TypeError"
    ELSE IF \E a \in DOMAIN m.index_file : a > addr THEN "UnpicklingError"
    ELSE "EOFError"

\* the exception of the first read that fails when the nodes at addrs are
\* read in this order, "none" when all can be read
RECURSIVE ReadsFail(_, _)
ReadsFail(m, addrs) ==
    IF addrs = <<>> THEN "none"
    ELSE IF ~HasNode(m, Head(addrs)) THEN NodeReadError(m, Head(addrs))
    ELSE ReadsFail(m, Tail(addrs))

read_node(m, addr) == m.index_file[addr]

\* The data file is its length in bytes and, for every slot boundary
\* a * 1024 that lies inside a pickle, that pickle's record and the
\* distance from the pickle's first byte to the boundary.
CoverAfterWrite(m, offset, record) ==
    LET size == PickledSize(record)
        hit == {a \in 0..((offset + size) \div RecordSlot) :
                    offset <= a * RecordSlot /\ a * RecordSlot < offset + size}
        \* pickles started before offset whose bytes the write runs over
        torn == {a \in DOMAIN m.data_file :
                    LET start == a * RecordSlot - m.data_file[a].delta
                    IN  start < offset + size
                        /\ offset < start + PickledSize(m.data_file[a].record)}
        keep == (DOMAIN m.data_file) \ torn
    IN  [a \in keep \cup hit |->
            IF a \in hit
            THEN [record |-> record, delta |-> a * RecordSlot - offset]
            ELSE m.data_file[a]]

\* with open(filename, 'ab'): seek(addr * 1024); pickle.dump(record)
\* (a file opened for appending writes at its end whatever the seek was)
append_record(m, addr, record) ==
    [m EXCEPT !.data_file = CoverAfterWrite(m, m.data_len, record),
              !.data_len = m.data_len + PickledSize(record)]

\* _write_record: 'r+b', seek(addr * 1024), pickle.dump(record)
write_record(m, addr, record) ==
    LET end == addr * RecordSlot + PickledSize(record)
    IN  [m EXCEPT !.data_file = CoverAfterWrite(m, addr * RecordSlot, record),
                  !.data_len = IF end > m.data_len THEN end ELSE m.data_len]

\* _read_record: seek(addr * 1024), pickle.load
read_record(m, addr) ==
    IF addr = None THEN RaiseResult("TypeError")
    ELSE IF addr * RecordSlot >= m.data_len THEN RaiseResult("EOFError")
    ELSE IF addr \in DOMAIN m.data_file /\ m.data_file[addr].delta \in ReadableDelta
         THEN RecordResult(m.data_file[addr].record)
         ELSE RaiseResult("UnpicklingError")

\* -------------------------------------------------------------- search
RECURSIVE search_recursive(_, _, _)
search_recursive(m, node_addr, key) ==
    IF ~HasNode(m, node_addr) THEN RaiseResult(NodeReadError(m, node_addr))
    ELSE
    LET node == read_node(m, node_addr)
        i == Scan(node.keys, key)
    IN  IF i < Len(node.keys) /\ key = At(node.keys, i)
        THEN IF i >= Len(node.addresses) THEN RaiseResult("IndexError")
             ELSE read_record(m, At(node.addresses, i))
        ELSE IF node.is_leaf THEN NoneResult
        ELSE IF i >= Len(node.children) THEN RaiseResult("IndexError")
        ELSE search_recursive(m, At(node.children, i), key)

search(m, key) ==
    IF m.root_addr = None THEN NoneResult
    ELSE search_recursive(m, m.root_addr, key)

\* what a call of search adds to stats.reads: _read_node and _read_record
\* count a read after the load (lines 118 and 133), so a load that raises
\* is not counted
RECURSIVE search_reads_recursive(_, _, _)
search_reads_recursive(m, node_addr, key) ==
    IF ~HasNode(m, node_addr) THEN 0
    ELSE
    LET node == read_node(m, node_addr)
        i == Scan(node.keys, key)
    IN  IF i < Len(node.keys) /\ key = At(node.keys, i)
        THEN IF i >= Len(node.addresses) THEN 1
             ELSE IF read_record(m, At(node.addresses, i)).kind = "Record" THEN 2
             ELSE 1
        ELSE IF node.is_leaf THEN 1
        ELSE IF i >= Len(node.children) THEN 1
        ELSE 1 + search_reads_recursive(m, At(node.children, i), key)

search_reads(m, key) ==
    IF m.root_addr = None THEN 0
    ELSE search_reads_recursive(m, m.root_addr, key)

\* what a call of search adds to stats.writes: it calls neither
\* _write_node nor _write_record nor _save_free_pages
search_writes(m, key) == 0

\* -------------------------------------------------------------- insert
\* _compensate_with_left; the parent's addresses are not touched, and the
\* separator travels as None in all_addrs
compensate_with_left(m, node_addr, left_addr, parent_addr, node_idx) ==
    IF ~Ok(m) THEN m
    ELSE IF ReadsFail(m, <<node_addr, left_addr, parent_addr>>) # "none"
    THEN Raise(m, ReadsFail(m, <<node_addr, left_addr, parent_addr>>))
    ELSE
    LET node == read_node(m, node_addr)
        left == read_node(m, left_addr)
        parent == read_node(m, parent_addr)
    IN  IF node_idx - 1 >= Len(parent.keys) THEN Raise(m, "IndexError")
        ELSE
        LET all_keys == left.keys \o <<At(parent.keys, node_idx - 1)>> \o node.keys
            all_addrs == left.addresses \o <<None>> \o node.addresses
            all_children == left.children \o node.children
            mid == Len(all_keys) \div 2
            left1 == [left EXCEPT
                        !.keys = Slice(all_keys, 0, mid),
                        !.addresses = Slice(all_addrs, 0, mid),
                        !.children = IF node.is_leaf THEN left.children
                                     ELSE Slice(all_children, 0, mid + 1)]
            parent1 == [parent EXCEPT
                        !.keys = ListSet(parent.keys, node_idx - 1, At(all_keys, mid))]
            node1 == [node EXCEPT
                        !.keys = Slice(all_keys, mid + 1, Len(all_keys)),
                        !.addresses = DropNone(Slice(all_addrs, mid + 1, Len(all_addrs))),
                        !.children = IF node.is_leaf THEN node.children
                                     ELSE Slice(all_children, mid + 1, Len(all_children))]
        IN  write_node(write_node(write_node(m, left_addr, left1), node_addr, node1),
                       parent_addr, parent1)

\* _compensate_with_right
compensate_with_right(m, node_addr, right_addr, parent_addr, node_idx) ==
    IF ~Ok(m) THEN m
    ELSE IF ReadsFail(m, <<node_addr, right_addr, parent_addr>>) # "none"
    THEN Raise(m, ReadsFail(m, <<node_addr, right_addr, parent_addr>>))
    ELSE
    LET node == read_node(m, node_addr)
        right == read_node(m, right_addr)
        parent == read_node(m, parent_addr)
    IN  IF node_idx >= Len(parent.keys) THEN Raise(m, "IndexError")
        ELSE
        LET all_keys == node.keys \o <<At(parent.keys, node_idx)>> \o right.keys
            all_addrs == node.addresses \o <<None>> \o right.addresses
            all_children == node.children \o right.children
            mid == Len(all_keys) \div 2
            node1 == [node EXCEPT
                        !.keys = Slice(all_keys, 0, mid),
                        !.addresses = Slice(all_addrs, 0, mid),
                        !.children = IF node.is_leaf THEN node.children
                                     ELSE Slice(all_children, 0, mid + 1)]
            parent1 == [parent EXCEPT
                        !.keys = ListSet(parent.keys, node_idx, At(all_keys, mid))]
            right1 == [right EXCEPT
                        !.keys = Slice(all_keys, mid + 1, Len(all_keys)),
                        !.addresses = DropNone(Slice(all_addrs, mid + 1, Len(all_addrs))),
                        !.children = IF node.is_leaf THEN right.children
                                     ELSE Slice(all_children, mid + 1, Len(all_children))]
        IN  write_node(write_node(write_node(m, node_addr, node1), right_addr, right1),
                       parent_addr, parent1)

\* lines 238 and 249 with <= for <: a full sibling is taken too
sibling_has_room_full(sibling) == Len(sibling.keys) <= max_keys

\* the test of lines 238 and 249: the sibling holds fewer than 2d keys
sibling_has_room(sibling) == Len(sibling.keys) < max_keys

\* _try_compensation: the machine afterwards and the value returned
try_compensation(m, node_addr) ==
    IF ~Ok(m) THEN [m |-> m, done |-> FALSE]
    ELSE IF ~HasNode(m, node_addr) THEN [m |-> Raise(m, NodeReadError(m, node_addr)), done |-> FALSE]
    ELSE
    LET node == read_node(m, node_addr)
    IN  IF node.parent_addr = None THEN [m |-> m, done |-> FALSE]
        ELSE IF ~HasNode(m, node.parent_addr) THEN [m |-> Raise(m, NodeReadError(m, node.parent_addr)), done |-> FALSE]
        ELSE
        LET parent == read_node(m, node.parent_addr)
            node_idx == ListIndex(parent.children, node_addr)
        IN  IF node_idx = None THEN [m |-> Raise(m, "ValueError"), done |-> FALSE]
            ELSE
            LET left_addr == At(parent.children, node_idx - 1)
                right_addr == At(parent.children, node_idx + 1)
                has_left == node_idx > 0
                has_right == node_idx < Len(parent.children) - 1
            IN  IF has_left /\ ~HasNode(m, left_addr)
                THEN [m |-> Raise(m, NodeReadError(m, left_addr)), done |-> FALSE]
                ELSE IF has_left /\ sibling_has_room(read_node(m, left_addr))
                THEN [m |-> compensate_with_left(m, node_addr, left_addr,
                                                 node.parent_addr, node_idx),
                      done |-> TRUE]
                ELSE IF has_right /\ ~HasNode(m, right_addr)
                THEN [m |-> Raise(m, NodeReadError(m, right_addr)), done |-> FALSE]
                ELSE IF has_right /\ sibling_has_room(read_node(m, right_addr))
                THEN [m |-> compensate_with_right(m, node_addr, right_addr,
                                                  node.parent_addr, node_idx),
                      done |-> TRUE]
                ELSE [m |-> m, done |-> FALSE]

RECURSIVE handle_overflow(_, _)

\* the halves _split_node makes of a node (lines 327-343)
SplitLower(node, mid) ==
    [node EXCEPT !.keys = Slice(node.keys, 0, mid),
                 !.addresses = Slice(node.addresses, 0, mid),
                 !.children = IF node.is_leaf THEN node.children
                              ELSE Slice(node.children, 0, mid + 1)]

SplitUpper(node, mid) ==
    [keys |-> Slice(node.keys, mid + 1, Len(node.keys)),
     addresses |-> Slice(node.addresses, mid + 1, Len(node.addresses)),
     children |-> IF node.is_leaf THEN <<>>
                  ELSE Slice(node.children, mid + 1, Len(node.children)),
     is_leaf |-> node.is_leaf,
     parent_addr |-> None]

\* _split_node.  The middle address is read (lines 354 and 373) from
\* node.addresses after line 340 has cut that list to its first mid
\* entries, so the read is out of range.
split_node(m, node_addr) ==
    IF ~Ok(m) THEN m
    ELSE IF ~HasNode(m, node_addr) THEN Raise(m, NodeReadError(m, node_addr))
    ELSE
    LET node0 == read_node(m, node_addr)
        mid == Len(node0.keys) \div 2
    IN  IF mid >= Len(node0.keys) THEN Raise(m, "IndexError")
        ELSE
        LET mid_key == At(node0.keys, mid)
            new_node == SplitUpper(node0, mid)
            node == SplitLower(node0, mid)
            a1 == get_new_page_addr(m)
            new_node_addr == a1.addr
            m2 == write_node(write_node(a1.m, new_node_addr, new_node), node_addr, node)
        IN  IF ~Ok(m2) THEN m2
            ELSE IF node.parent_addr = None
            THEN IF mid >= Len(node.addresses) THEN Raise(m2, "IndexError")
                 ELSE
                 LET new_root == [keys |-> <<mid_key>>,
                                  addresses |-> <<At(node.addresses, mid)>>,
                                  children |-> <<node_addr, new_node_addr>>,
                                  is_leaf |-> FALSE,
                                  parent_addr |-> None]
                     a2 == get_new_page_addr(m2)
                     new_root_addr == a2.addr
                     m3 == [a2.m EXCEPT !.root_addr = new_root_addr]
                 IN  write_node(
                       write_node(
                         write_node(m3, new_root_addr, new_root),
                         node_addr, [node EXCEPT !.parent_addr = new_root_addr]),
                       new_node_addr, [new_node EXCEPT !.parent_addr = new_root_addr])
            ELSE IF ~HasNode(m2, node.parent_addr) THEN Raise(m2, NodeReadError(m2, node.parent_addr))
            ELSE
            LET parent0 == read_node(m2, node.parent_addr)
                idx == ListIndex(parent0.children, node_addr)
            IN  IF idx = None THEN Raise(m2, "ValueError")
                ELSE IF mid >= Len(node.addresses) THEN Raise(m2, "IndexError")
                ELSE
                LET parent == [parent0 EXCEPT
                                 !.keys = ListInsert(parent0.keys, idx, mid_key),
                                 !.addresses = ListInsert(parent0.addresses, idx,
                                                          At(node.addresses, mid)),
                                 !.children = ListInsert(parent0.children, idx + 1,
                                                         new_node_addr)]
                    m3 == write_node(
                            write_node(m2, node.parent_addr, parent),
                            new_node_addr, [new_node EXCEPT !.parent_addr = node.parent_addr])
                IN  IF Len(parent.keys) > max_keys
                    THEN handle_overflow(m3, node.parent_addr)
                    ELSE m3

\* _handle_overflow
handle_overflow(m, node_addr) ==
    IF ~Ok(m) THEN m
    ELSE IF ~HasNode(m, node_addr) THEN Raise(m, NodeReadError(m, node_addr))
    ELSE
    LET c == try_compensation(m, node_addr)
    IN  IF ~Ok(c.m) \/ c.done THEN c.m
        ELSE split_node(c.m, node_addr)

\* line 207 written with the limit off by one
leaf_overflows_late(node) == Len(node.keys) > max_keys + 1

\* the overflow test of line 207
leaf_overflows(node) == Len(node.keys) > max_keys

\* lines 196-198 without the scan: the key always goes to the end
insert_position_end(keys, key) == Len(keys)

\* the slot of a leaf that receives the new key (lines 196-198)
insert_position(keys, key) == Scan(keys, key)

\* _insert_recursive
RECURSIVE insert_recursive(_, _, _, _)
insert_recursive(m, node_addr, key, record_addr) ==
    IF ~Ok(m) THEN m
    ELSE IF ~HasNode(m, node_addr) THEN Raise(m, NodeReadError(m, node_addr))
    ELSE
    LET node == read_node(m, node_addr)
        i == insert_position(node.keys, key)
    IN  IF node.is_leaf
        THEN LET node1 == [node EXCEPT
                             !.keys = ListInsert(node.keys, i, key),
                             !.addresses = ListInsert(node.addresses, i, record_addr)]
                 m1 == write_node(m, node_addr, node1)
             IN  IF leaf_overflows(node1) THEN handle_overflow(m1, node_addr) ELSE m1
        ELSE IF i >= Len(node.children) THEN Raise(m, "IndexError")
        ELSE insert_recursive(m, At(node.children, i), key, record_addr)

\* line 167 without the test
is_duplicate_never(found) == FALSE

\* the duplicate test of line 167: search(record.key) is not None
is_duplicate(found) == found.kind # "None"

\* insert: the machine afterwards and the value returned ("True",
\* "False", or the name of the exception that left the call)
insert(m, record) ==
    LET found == search(m, record.key)
    IN  IF found.kind \notin {"None", "Record"}
        THEN [m |-> m, ret |-> found.kind]
        ELSE IF is_duplicate(found) THEN [m |-> m, ret |-> "False"]
        ELSE
        LET a1 == get_new_page_addr(m)
            record_addr == a1.addr
            m1 == append_record(a1.m, record_addr, record)
        IN  IF record_addr = None THEN [m |-> a1.m, ret |-> "TypeError"]
            ELSE IF m1.root_addr = None
            THEN LET root == [BTreeNode(TRUE) EXCEPT
                                !.keys = <<record.key>>,
                                !.addresses = <<record_addr>>]
                     a2 == get_new_page_addr(m1)
                     m2 == write_node([a2.m EXCEPT !.root_addr = a2.addr], a2.addr, root)
                 IN  [m |-> [m2 EXCEPT !.exc = "none"],
                      ret |-> IF Ok(m2) THEN "True" ELSE m2.exc]
            ELSE LET m2 == insert_recursive(m1, m1.root_addr, record.key, record_addr)
                 IN  [m |-> [m2 EXCEPT !.exc = "none"],
                      ret |-> IF Ok(m2) THEN "True" ELSE m2.exc]

\* one call of _split_node up to line 381: the machine it leaves and the
\* node line 382 calls _handle_overflow for (None when it makes no call)
split_node_once(m, node_addr) ==
    IF ~Ok(m) THEN [m |-> m, next |-> None]
    ELSE IF ~HasNode(m, node_addr)
    THEN [m |-> Raise(m, NodeReadError(m, node_addr)), next |-> None]
    ELSE
    LET node0 == read_node(m, node_addr)
        mid == Len(node0.keys) \div 2
    IN  IF mid >= Len(node0.keys) THEN [m |-> Raise(m, "IndexError"), next |-> None]
        ELSE
        LET mid_key == At(node0.keys, mid)
            new_node == SplitUpper(node0, mid)
            node == SplitLower(node0, mid)
            a1 == get_new_page_addr(m)
            new_node_addr == a1.addr
            m2 == write_node(write_node(a1.m, new_node_addr, new_node), node_addr, node)
        IN  IF ~Ok(m2) THEN [m |-> m2, next |-> None]
            ELSE IF node.parent_addr = None
            THEN IF mid >= Len(node.addresses)
                 THEN [m |-> Raise(m2, "IndexError"), next |-> None]
                 ELSE
                 LET new_root == [keys |-> <<mid_key>>,
                                  addresses |-> <<At(node.addresses, mid)>>,
                                  children |-> <<node_addr, new_node_addr>>,
                                  is_leaf |-> FALSE,
                                  parent_addr |-> None]
                     a2 == get_new_page_addr(m2)
                     new_root_addr == a2.addr
                     m3 == [a2.m EXCEPT !.root_addr = new_root_addr]
                 IN  [m |-> write_node(
                              write_node(
                                write_node(m3, new_root_addr, new_root),
                                node_addr, [node EXCEPT !.parent_addr = new_root_addr]),
                              new_node_addr, [new_node EXCEPT !.parent_addr = new_root_addr]),
                      next |-> None]
            ELSE IF ~HasNode(m2, node.parent_addr)
            THEN [m |-> Raise(m2, NodeReadError(m2, node.parent_addr)), next |-> None]
            ELSE
            LET parent0 == read_node(m2, node.parent_addr)
                idx == ListIndex(parent0.children, node_addr)
            IN  IF idx = None THEN [m |-> Raise(m2, "ValueError"), next |-> None]
                ELSE IF mid >= Len(node.addresses)
                THEN [m |-> Raise(m2, "IndexError"), next |-> None]
                ELSE
                LET parent == [parent0 EXCEPT
                                 !.keys = ListInsert(parent0.keys, idx, mid_key),
                                 !.addresses = ListInsert(parent0.addresses, idx,
                                                          At(node.addresses, mid)),
                                 !.children = ListInsert(parent0.children, idx + 1,
                                                         new_node_addr)]
                    m3 == write_node(
                            write_node(m2, node.parent_addr, parent),
                            new_node_addr, [new_node EXCEPT !.parent_addr = node.parent_addr])
                IN  [m |-> m3,
                     next |-> IF Ok(m3) /\ Len(parent.keys) > max_keys
                              THEN node.parent_addr ELSE None]

\* one call of _handle_overflow, the call it makes of _try_compensation
\* and of _split_node included, up to the point where _split_node calls
\* _handle_overflow again
handle_overflow_once(m, node_addr) ==
    IF ~Ok(m) THEN [m |-> m, next |-> None]
    ELSE IF ~HasNode(m, node_addr)
    THEN [m |-> Raise(m, NodeReadError(m, node_addr)), next |-> None]
    ELSE
    LET c == try_compensation(m, node_addr)
    IN  IF ~Ok(c.m) \/ c.done THEN [m |-> c.m, next |-> None]
        ELSE split_node_once(c.m, node_addr)

\* the calls of _handle_overflow one after the other, from the leaf
\* line 208 names to the last one
RECURSIVE overflow_chain(_, _)
overflow_chain(m, node_addr) ==
    IF node_addr = None THEN m
    ELSE LET r == handle_overflow_once(m, node_addr)
         IN  overflow_chain(r.m, r.next)

\* _insert_recursive up to the call of _handle_overflow at line 208: the
\* machine at that point and the leaf line 208 names (None when the line
\* is not reached)
RECURSIVE insert_recursive_descent(_, _, _, _)
insert_recursive_descent(m, node_addr, key, record_addr) ==
    IF ~Ok(m) THEN [m |-> m, over |-> None]
    ELSE IF ~HasNode(m, node_addr)
    THEN [m |-> Raise(m, NodeReadError(m, node_addr)), over |-> None]
    ELSE
    LET node == read_node(m, node_addr)
        i == insert_position(node.keys, key)
    IN  IF node.is_leaf
        THEN LET node1 == [node EXCEPT
                             !.keys = ListInsert(node.keys, i, key),
                             !.addresses = ListInsert(node.addresses, i, record_addr)]
                 m1 == write_node(m, node_addr, node1)
             IN  [m |-> m1,
                  over |-> IF Ok(m1) /\ leaf_overflows(node1) THEN node_addr ELSE None]
        ELSE IF i >= Len(node.children)
        THEN [m |-> Raise(m, "IndexError"), over |-> None]
        ELSE insert_recursive_descent(m, At(node.children, i), key, record_addr)

\* insert up to the call of _handle_overflow at line 208: the machine at
\* that point, the value insert returns when no repair is needed, and the
\* leaf line 208 names
insert_descent(m, record) ==
    LET found == search(m, record.key)
    IN  IF found.kind \notin {"None", "Record"}
        THEN [m |-> m, ret |-> found.kind, over |-> None]
        ELSE IF is_duplicate(found) THEN [m |-> m, ret |-> "False", over |-> None]
        ELSE
        LET a1 == get_new_page_addr(m)
            record_addr == a1.addr
            m1 == append_record(a1.m, record_addr, record)
        IN  IF record_addr = None THEN [m |-> a1.m, ret |-> "TypeError", over |-> None]
            ELSE IF m1.root_addr = None
            THEN LET root == [BTreeNode(TRUE) EXCEPT
                                !.keys = <<record.key>>,
                                !.addresses = <<record_addr>>]
                     a2 == get_new_page_addr(m1)
                     m2 == write_node([a2.m EXCEPT !.root_addr = a2.addr], a2.addr, root)
                 IN  [m |-> [m2 EXCEPT !.exc = "none"],
                      ret |-> IF Ok(m2) THEN "True" ELSE m2.exc,
                      over |-> None]
            ELSE LET r == insert_recursive_descent(m1, m1.root_addr, record.key, record_addr)
                 IN  [m |-> [r.m EXCEPT !.exc = "none"],
                      ret |-> IF Ok(r.m) THEN "True" ELSE r.m.exc,
                      over |-> r.over]

\* -------------------------------------------------------------- delete
\* _get_predecessor: key and address of the largest key below node_addr
RECURSIVE get_predecessor(_, _)
get_predecessor(m, node_addr) ==
    IF ~HasNode(m, node_addr) THEN [exc |-> NodeReadError(m, node_addr), key |-> None, addr |-> None]
    ELSE
    LET node == read_node(m, node_addr)
    IN  IF node.is_leaf
        THEN IF node.keys = <<>> \/ node.addresses = <<>>
             THEN [exc |-> "IndexError", key |-> None, addr |-> None]
             ELSE [exc |-> "none",
                   key |-> node.keys[Len(node.keys)],
                   addr |-> node.addresses[Len(node.addresses)]]
        ELSE IF node.children = <<>>
             THEN [exc |-> "IndexError", key |-> None, addr |-> None]
             ELSE get_predecessor(m, node.children[Len(node.children)])

\* _borrow_from_left
borrow_from_left(m, node_addr, left_addr, parent_addr, node_idx) ==
    IF ~Ok(m) THEN m
    ELSE IF ReadsFail(m, <<node_addr, left_addr, parent_addr>>) # "none"
    THEN Raise(m, ReadsFail(m, <<node_addr, left_addr, parent_addr>>))
    ELSE
    LET node == read_node(m, node_addr)
        left == read_node(m, left_addr)
        parent == read_node(m, parent_addr)
    IN  IF node_idx - 1 >= Len(parent.keys) \/ node_idx - 1 >= Len(parent.addresses)
           \/ (~node.is_leaf /\ left.children = <<>>)
           \/ left.keys = <<>> \/ left.addresses = <<>>
        THEN Raise(m, "IndexError")
        ELSE
        LET node1 == [node EXCEPT
                        !.keys = ListInsert(node.keys, 0, At(parent.keys, node_idx - 1)),
                        !.addresses = ListInsert(node.addresses, 0,
                                                 At(parent.addresses, node_idx - 1)),
                        !.children = IF node.is_leaf THEN node.children
                                     ELSE ListInsert(node.children, 0,
                                                     left.children[Len(left.children)])]
            left1 == [left EXCEPT
                        !.keys = ListPop(left.keys, Len(left.keys) - 1),
                        !.addresses = ListPop(left.addresses, Len(left.addresses) - 1),
                        !.children = IF node.is_leaf THEN left.children
                                     ELSE ListPop(left.children, Len(left.children) - 1)]
            parent1 == [parent EXCEPT
                        !.keys = ListSet(parent.keys, node_idx - 1,
                                         left.keys[Len(left.keys)]),
                        !.addresses = ListSet(parent.addresses, node_idx - 1,
                                              left.addresses[Len(left.addresses)])]
        IN  write_node(write_node(write_node(m, node_addr, node1), left_addr, left1),
                       parent_addr, parent1)

\* _borrow_from_right
borrow_from_right(m, node_addr, right_addr, parent_addr, node_idx) ==
    IF ~Ok(m) THEN m
    ELSE IF ReadsFail(m, <<node_addr, right_addr, parent_addr>>) # "none"
    THEN Raise(m, ReadsFail(m, <<node_addr, right_addr, parent_addr>>))
    ELSE
    LET node == read_node(m, node_addr)
        right == read_node(m, right_addr)
        parent == read_node(m, parent_addr)
    IN  IF node_idx >= Len(parent.keys) \/ node_idx >= Len(parent.addresses)
           \/ (~node.is_leaf /\ right.children = <<>>)
           \/ right.keys = <<>> \/ right.addresses = <<>>
        THEN Raise(m, "IndexError")
        ELSE
        LET node1 == [node EXCEPT
                        !.keys = Append(node.keys, At(parent.keys, node_idx)),
                        !.addresses = Append(node.addresses, At(parent.addresses, node_idx)),
                        !.children = IF node.is_leaf THEN node.children
                                     ELSE Append(node.children, At(right.children, 0))]
            right1 == [right EXCEPT
                        !.keys = ListPop(right.keys, 0),
                        !.addresses = ListPop(right.addresses, 0),
                        !.children = IF node.is_leaf THEN right.children
                                     ELSE ListPop(right.children, 0)]
            parent1 == [parent EXCEPT
                        !.keys = ListSet(parent.keys, node_idx, At(right.keys, 0)),
                        !.addresses = ListSet(parent.addresses, node_idx,
                                              At(right.addresses, 0))]
        IN  write_node(write_node(write_node(m, node_addr, node1), right_addr, right1),
                       parent_addr, parent1)

\* lines 463 and 470 with >= for >: a sibling at the minimum lends too
has_spare_keys_at_min(sibling) == Len(sibling.keys) >= min_keys

\* the test of lines 463 and 470: the sibling holds more than d keys
has_spare_keys(sibling) == Len(sibling.keys) > min_keys

RECURSIVE handle_underflow(_, _)

\* line 552 with left_addr for parent_addr: the repair stays on the level
\* of the merged node
repair_next_same_level(left_addr, parent_addr) == left_addr

\* the node line 552 passes to _handle_underflow: the parent
repair_next(left_addr, parent_addr) == parent_addr

\* line 551 without the test: the repair never goes on to the parent
parent_underflows_never(m, parent_addr, parent) == FALSE

\* the test of line 551: the parent is not the root and is below d keys
parent_underflows(m, parent_addr, parent) ==
    parent_addr # m.root_addr /\ Len(parent.keys) < min_keys

\* _merge_nodes
merge_nodes(m, left_addr, right_addr, parent_addr, parent_idx) ==
    IF ~Ok(m) THEN m
    ELSE IF ReadsFail(m, <<left_addr, right_addr, parent_addr>>) # "none"
    THEN Raise(m, ReadsFail(m, <<left_addr, right_addr, parent_addr>>))
    ELSE
    LET left == read_node(m, left_addr)
        right == read_node(m, right_addr)
        parent == read_node(m, parent_addr)
    IN  IF parent_idx >= Len(parent.keys) \/ parent_idx >= Len(parent.addresses)
           \/ parent_idx + 1 >= Len(parent.children)
        THEN Raise(m, "IndexError")
        ELSE
        LET left1 == [left EXCEPT
                        !.keys = Append(left.keys, At(parent.keys, parent_idx)) \o right.keys,
                        !.addresses = Append(left.addresses, At(parent.addresses, parent_idx))
                                      \o right.addresses,
                        !.children = IF left.is_leaf THEN left.children
                                     ELSE left.children \o right.children]
            parent1 == [parent EXCEPT
                        !.keys = ListPop(parent.keys, parent_idx),
                        !.addresses = ListPop(parent.addresses, parent_idx),
                        !.children = ListPop(parent.children, parent_idx + 1)]
            m1 == free_page_addr(
                    write_node(write_node(m, left_addr, left1), parent_addr, parent1),
                    right_addr)
        IN  IF parent_underflows(m1, parent_addr, parent1)
            THEN handle_underflow(m1, repair_next(left_addr, parent_addr))
            ELSE m1

\* _handle_underflow
handle_underflow(m, node_addr) ==
    IF ~Ok(m) THEN m
    ELSE IF ~HasNode(m, node_addr) THEN Raise(m, NodeReadError(m, node_addr))
    ELSE
    LET node == read_node(m, node_addr)
    IN  IF node.parent_addr = None THEN Raise(m, "TypeError")
        ELSE IF ~HasNode(m, node.parent_addr) THEN Raise(m, NodeReadError(m, node.parent_addr))
        ELSE
        LET parent == read_node(m, node.parent_addr)
            node_idx == ListIndex(parent.children, node_addr)
        IN  IF node_idx = None THEN Raise(m, "ValueError")
            ELSE
            LET left_addr == At(parent.children, node_idx - 1)
                right_addr == At(parent.children, node_idx + 1)
                has_left == node_idx > 0
                has_right == node_idx < Len(parent.children) - 1
            IN  IF has_left /\ ~HasNode(m, left_addr) THEN Raise(m, NodeReadError(m, left_addr))
                ELSE IF has_left /\ has_spare_keys(read_node(m, left_addr))
                THEN borrow_from_left(m, node_addr, left_addr, node.parent_addr, node_idx)
                ELSE IF has_right /\ ~HasNode(m, right_addr) THEN Raise(m, NodeReadError(m, right_addr))
                ELSE IF has_right /\ has_spare_keys(read_node(m, right_addr))
                THEN borrow_from_right(m, node_addr, right_addr, node.parent_addr, node_idx)
                ELSE IF has_left
                THEN merge_nodes(m, left_addr, node_addr, node.parent_addr, node_idx - 1)
                ELSE IF ~has_right THEN Raise(m, "IndexError")
                ELSE merge_nodes(m, node_addr, right_addr, node.parent_addr, node_idx)

\* one call of _merge_nodes up to line 551: the machine it leaves and the
\* node line 552 calls _handle_underflow for (None when it makes no call)
merge_nodes_once(m, left_addr, right_addr, parent_addr, parent_idx) ==
    IF ~Ok(m) THEN [m |-> m, next |-> None]
    ELSE IF ReadsFail(m, <<left_addr, right_addr, parent_addr>>) # "none"
    THEN [m |-> Raise(m, ReadsFail(m, <<left_addr, right_addr, parent_addr>>)),
          next |-> None]
    ELSE
    LET left == read_node(m, left_addr)
        right == read_node(m, right_addr)
        parent == read_node(m, parent_addr)
    IN  IF parent_idx >= Len(parent.keys) \/ parent_idx >= Len(parent.addresses)
           \/ parent_idx + 1 >= Len(parent.children)
        THEN [m |-> Raise(m, "IndexError"), next |-> None]
        ELSE
        LET left1 == [left EXCEPT
                        !.keys = Append(left.keys, At(parent.keys, parent_idx)) \o right.keys,
                        !.addresses = Append(left.addresses, At(parent.addresses, parent_idx))
                                      \o right.addresses,
                        !.children = IF left.is_leaf THEN left.children
                                     ELSE left.children \o right.children]
            parent1 == [parent EXCEPT
                        !.keys = ListPop(parent.keys, parent_idx),
                        !.addresses = ListPop(parent.addresses, parent_idx),
                        !.children = ListPop(parent.children, parent_idx + 1)]
            m1 == free_page_addr(
                    write_node(write_node(m, left_addr, left1), parent_addr, parent1),
                    right_addr)
        IN  [m |-> m1,
             next |-> IF parent_underflows(m1, parent_addr, parent1)
                      THEN repair_next(left_addr, parent_addr) ELSE None]

\* one call of _handle_underflow, the call it makes of _borrow_from_left,
\* _borrow_from_right or _merge_nodes included, up to the point where
\* _merge_nodes calls _handle_underflow again
handle_underflow_once(m, node_addr) ==
    IF ~Ok(m) THEN [m |-> m, next |-> None]
    ELSE IF ~HasNode(m, node_addr)
    THEN [m |-> Raise(m, NodeReadError(m, node_addr)), next |-> None]
    ELSE
    LET node == read_node(m, node_addr)
    IN  IF node.parent_addr = None THEN [m |-> Raise(m, "TypeError"), next |-> None]
        ELSE IF ~HasNode(m, node.parent_addr)
        THEN [m |-> Raise(m, NodeReadError(m, node.parent_addr)), next |-> None]
        ELSE
        LET parent == read_node(m, node.parent_addr)
            node_idx == ListIndex(parent.children, node_addr)
        IN  IF node_idx = None THEN [m |-> Raise(m, "ValueError"), next |-> None]
            ELSE
            LET left_addr == At(parent.children, node_idx - 1)
                right_addr == At(parent.children, node_idx + 1)
                has_left == node_idx > 0
                has_right == node_idx < Len(parent.children) - 1
            IN  IF has_left /\ ~HasNode(m, left_addr)
                THEN [m |-> Raise(m, NodeReadError(m, left_addr)), next |-> None]
                ELSE IF has_left /\ has_spare_keys(read_node(m, left_addr))
                THEN [m |-> borrow_from_left(m, node_addr, left_addr,
                                             node.parent_addr, node_idx),
                      next |-> None]
                ELSE IF has_right /\ ~HasNode(m, right_addr)
                THEN [m |-> Raise(m, NodeReadError(m, right_addr)), next |-> None]
                ELSE IF has_right /\ has_spare_keys(read_node(m, right_addr))
                THEN [m |-> borrow_from_right(m, node_addr, right_addr,
                                              node.parent_addr, node_idx),
                      next |-> None]
                ELSE IF has_left
                THEN merge_nodes_once(m, left_addr, node_addr, node.parent_addr, node_idx - 1)
                ELSE IF ~has_right THEN [m |-> Raise(m, "IndexError"), next |-> None]
                ELSE merge_nodes_once(m, node_addr, right_addr, node.parent_addr, node_idx)

\* line 410 without the comparison of the key
key_found_any(node, i, key) == i < Len(node.keys)

\* the test of line 410: the scan stopped on the key itself
key_found(node, i, key) == i < Len(node.keys) /\ key = At(node.keys, i)

\* _delete_recursive: the machine afterwards and the value returned
RECURSIVE delete_recursive(_, _, _)
delete_recursive(m, node_addr, key) ==
    IF ~HasNode(m, node_addr) THEN [m |-> Raise(m, NodeReadError(m, node_addr)), result |-> FALSE]
    ELSE
    LET node == read_node(m, node_addr)
        i == Scan(node.keys, key)
    IN  IF key_found(node, i, key)
        THEN IF i >= Len(node.addresses)
             THEN [m |-> Raise(m, "IndexError"), result |-> FALSE]
             ELSE IF node.is_leaf
             THEN LET m1 == free_page_addr(m, At(node.addresses, i))
                      node1 == [node EXCEPT !.keys = ListPop(node.keys, i),
                                            !.addresses = ListPop(node.addresses, i)]
                      m2 == write_node(m1, node_addr, node1)
                      m3 == IF node_addr # m2.root_addr /\ Len(node1.keys) < min_keys
                            THEN handle_underflow(m2, node_addr)
                            ELSE m2
                  IN  [m |-> m3, result |-> Ok(m3)]
             ELSE IF i >= Len(node.children)
             THEN [m |-> Raise(m, "IndexError"), result |-> FALSE]
             ELSE LET pred == get_predecessor(m, At(node.children, i))
                  IN  IF pred.exc # "none"
                      THEN [m |-> Raise(m, pred.exc), result |-> FALSE]
                      ELSE LET node1 == [node EXCEPT
                                           !.keys = ListSet(node.keys, i, pred.key),
                                           !.addresses = ListSet(node.addresses, i, pred.addr)]
                           IN  delete_recursive(write_node(m, node_addr, node1),
                                                At(node.children, i), pred.key)
        ELSE IF ~node.is_leaf
        THEN IF i >= Len(node.children)
             THEN [m |-> Raise(m, "IndexError"), result |-> FALSE]
             ELSE delete_recursive(m, At(node.children, i), key)
        ELSE [m |-> m, result |-> FALSE]

\* _delete_recursive up to the call of _handle_underflow at line 423: the
\* machine at that point, the value the call returns when no repair is
\* needed, and the leaf line 423 names (None when the line is not reached)
RECURSIVE delete_descent(_, _, _)
delete_descent(m, node_addr, key) ==
    IF ~HasNode(m, node_addr)
    THEN [m |-> Raise(m, NodeReadError(m, node_addr)), result |-> FALSE, under |-> None]
    ELSE
    LET node == read_node(m, node_addr)
        i == Scan(node.keys, key)
    IN  IF key_found(node, i, key)
        THEN IF i >= Len(node.addresses)
             THEN [m |-> Raise(m, "IndexError"), result |-> FALSE, under |-> None]
             ELSE IF node.is_leaf
             THEN LET m1 == free_page_addr(m, At(node.addresses, i))
                      node1 == [node EXCEPT !.keys = ListPop(node.keys, i),
                                            !.addresses = ListPop(node.addresses, i)]
                      m2 == write_node(m1, node_addr, node1)
                  IN  [m |-> m2, result |-> Ok(m2),
                       under |-> IF Ok(m2) /\ node_addr # m2.root_addr
                                    /\ Len(node1.keys) < min_keys
                                 THEN node_addr ELSE None]
             ELSE IF i >= Len(node.children)
             THEN [m |-> Raise(m, "IndexError"), result |-> FALSE, under |-> None]
             ELSE LET pred == get_predecessor(m, At(node.children, i))
                  IN  IF pred.exc # "none"
                      THEN [m |-> Raise(m, pred.exc), result |-> FALSE, under |-> None]
                      ELSE LET node1 == [node EXCEPT
                                           !.keys = ListSet(node.keys, i, pred.key),
                                           !.addresses = ListSet(node.addresses, i, pred.addr)]
                           IN  delete_descent(write_node(m, node_addr, node1),
                                              At(node.children, i), pred.key)
        ELSE IF ~node.is_leaf
        THEN IF i >= Len(node.children)
             THEN [m |-> Raise(m, "IndexError"), result |-> FALSE, under |-> None]
             ELSE delete_descent(m, At(node.children, i), key)
        ELSE [m |-> m, result |-> FALSE, under |-> None]

\* the calls of _handle_underflow one after the other, from the node
\* line 423 names to the last one
RECURSIVE underflow_chain(_, _)
underflow_chain(m, node_addr) ==
    IF node_addr = None THEN m
    ELSE LET r == handle_underflow_once(m, node_addr)
         IN  underflow_chain(r.m, r.next)

\* line 395 without the test: the root is never replaced
root_is_empty_never(root) == FALSE

\* the test of line 395: an internal root without keys
root_is_empty(root) == Len(root.keys) = 0 /\ ~root.is_leaf

\* delete: the machine afterwards and the value returned
delete(m, key) ==
    IF m.root_addr = None THEN [m |-> m, ret |-> "False"]
    ELSE
    LET r == delete_recursive(m, m.root_addr, key)
    IN  IF ~Ok(r.m) THEN [m |-> [r.m EXCEPT !.exc = "none"], ret |-> r.m.exc]
        ELSE IF ~r.result THEN [m |-> r.m, ret |-> "False"]
        ELSE
        LET root == read_node(r.m, r.m.root_addr)
        IN  IF root_is_empty(root)
            THEN IF root.children = <<>>
                 THEN [m |-> r.m, ret |-> "IndexError"]
                 ELSE [m |-> free_page_addr([r.m EXCEPT !.root_addr = At(root.children, 0)],
                                            r.m.root_addr),
                       ret |-> "True"]
            ELSE [m |-> r.m, ret |-> "True"]

\* lines 392-398 of delete, reached when _delete_recursive returned True
delete_root_check(m) ==
    IF ~Ok(m) \/ ~HasNode(m, m.root_addr) THEN m
    ELSE
    LET root == read_node(m, m.root_addr)
    IN  IF root_is_empty(root)
        THEN IF root.children = <<>> THEN Raise(m, "IndexError")
             ELSE free_page_addr([m EXCEPT !.root_addr = At(root.children, 0)],
                                 m.root_addr)
        ELSE m

\* -------------------------------------------------------------- update
\* the loop of lines 564-579
RECURSIVE update_walk(_, _, _, _)
update_walk(m, node_addr, key, record) ==
    IF ~HasNode(m, node_addr) THEN [m |-> m, ret |-> NodeReadError(m, node_addr)]
    ELSE
    LET node == read_node(m, node_addr)
        i == Scan(node.keys, key)
    IN  IF i < Len(node.keys) /\ key = At(node.keys, i)
        THEN IF i >= Len(node.addresses) THEN [m |-> m, ret |-> "IndexError"]
             ELSE IF At(node.addresses, i) = None THEN [m |-> m, ret |-> "TypeError"]
             ELSE [m |-> write_record(m, At(node.addresses, i), record), ret |-> "True"]
        ELSE IF node.is_leaf THEN [m |-> m, ret |-> "False"]
        ELSE IF i >= Len(node.children) THEN [m |-> m, ret |-> "IndexError"]
        ELSE update_walk(m, At(node.children, i), key, record)

\* whether update gives up because search returned None (line 557)
update_missing(found) == found.kind = "None"

update(m, key, new_numbers) ==
    LET found == search(m, key)
    IN  IF found.kind \notin {"None", "Record"} THEN [m |-> m, ret |-> found.kind]
        ELSE IF update_missing(found) THEN [m |-> m, ret |-> "False"]
        ELSE update_walk(m, m.root_addr, key, Record(found.key, new_numbers))

\* ------------------------------------------------------------ traverse
\* _traverse_recursive: the records in visiting order, or the exception
RECURSIVE traverse_recursive(_, _)
RECURSIVE traverse_keys(_, _, _)
traverse_keys(m, node, i) ==
    IF i >= Len(node.keys) THEN [exc |-> "none", records |-> <<>>]
    ELSE
    LET below == IF node.is_leaf THEN [exc |-> "none", records |-> <<>>]
                 ELSE IF i >= Len(node.children) THEN [exc |-> "IndexError", records |-> <<>>]
                 ELSE traverse_recursive(m, At(node.children, i))
        rec == IF i >= Len(node.addresses) THEN RaiseResult("IndexError")
               ELSE read_record(m, At(node.addresses, i))
    IN  IF below.exc # "none" THEN below
        ELSE IF rec.kind # "Record" THEN [exc |-> rec.kind, records |-> <<>>]
        ELSE LET rest == traverse_keys(m, node, i + 1)
             IN  IF rest.exc # "none" THEN rest
                 ELSE [exc |-> "none",
                       records |-> below.records \o <<Record(rec.key, rec.numbers)>>
                                   \o rest.records]

traverse_recursive(m, node_addr) ==
    IF ~HasNode(m, node_addr) THEN [exc |-> NodeReadError(m, node_addr), records |-> <<>>]
    ELSE
    LET node == read_node(m, node_addr)
        first == traverse_keys(m, node, 0)
    IN  IF first.exc # "none" THEN first
        ELSE IF ~node.is_leaf /\ node.children # <<>>
        THEN LET last_child == traverse_recursive(m, node.children[Len(node.children)])
             IN  IF last_child.exc # "none" THEN last_child
                 ELSE [exc |-> "none", records |-> first.records \o last_child.records]
        ELSE first

traverse(m) ==
    IF m.root_addr = None THEN [exc |-> "none", records |-> <<>>]
    ELSE traverse_recursive(m, m.root_addr)

\* ---------------------------------------------------------------- state
VARIABLES
    root_addr,       \* BTree.root_addr, None for the empty tree
    next_page_addr,  \* BTree.next_page_addr
    free_pages,      \* BTree.free_pages
    index_file,      \* the .idx file: slot -> node
    data_file,       \* the data file: slot boundary -> pickle lying on it
    data_len,        \* the data file's length in bytes
    free_file,       \* the .free file: the list _save_free_pages wrote last
    steps,           \* operations applied to a tree that was put under
                     \* the object (SpecTree, SpecSteps); 0 otherwise
    pc,              \* where the call in progress stands (SpecSteps):
                     \* "idle" between calls, "overflow" before a call of
                     \* _handle_overflow, "underflow" before a call of
                     \* _handle_underflow, "root" before line 392
    cur,             \* the node that call is made for, None otherwise
    start_ok,        \* history: whether the parent pointers were right
                     \* when the call in progress began
    live             \* history: key -> record, for the keys put in by an
                     \* insert that returned True and not taken out since by
                     \* a delete that returned True

vars == <<root_addr, next_page_addr, free_pages, index_file, data_file, data_len,
          free_file, steps, pc, cur, start_ok, live>>

Machine ==
    [root_addr |-> root_addr, next_page_addr |-> next_page_addr,
     free_pages |-> free_pages, index_file |-> index_file,
     data_file |-> data_file, data_len |-> data_len, free_file |-> free_file,
     exc |-> "none"]

Install(m) ==
    /\ root_addr' = m.root_addr
    /\ next_page_addr' = m.next_page_addr
    /\ free_pages' = m.free_pages
    /\ index_file' = m.index_file
    /\ data_file' = m.data_file
    /\ data_len' = m.data_len
    /\ free_file' = m.free_file

\* BTree.__init__ in a directory without files
Init ==
    /\ root_addr = None
    /\ next_page_addr = 0
    /\ free_pages = <<>>
    /\ index_file = <<>>
    /\ data_file = <<>>
    /\ data_len = 0
    /\ free_file = <<>>
    /\ steps = 0
    /\ pc = "idle"
    /\ cur = None
    /\ start_ok = TRUE
    /\ live = <<>>

Without(f, k) == [x \in (DOMAIN f) \ {k} |-> f[x]]
With(f, k, v) == [x \in (DOMAIN f) \cup {k} |-> IF x = k THEN v ELSE f[x]]

\* menu choice 1: btree.insert(Record(key, numbers))
Insert(key, numbers) ==
    LET r == insert(Machine, Record(key, numbers))
    IN  /\ r.m.data_len <= MaxFileLen
        /\ Install(r.m)
        /\ live' = IF r.ret = "True" THEN With(live, key, Record(key, numbers)) ELSE live
        /\ UNCHANGED <<steps, pc, cur, start_ok>>

\* menu choice 3: btree.delete(key)
Delete(key) ==
    LET r == delete(Machine, key)
    IN  /\ Install(r.m)
        /\ live' = IF r.ret = "True" THEN Without(live, key) ELSE live
        /\ UNCHANGED <<steps, pc, cur, start_ok>>

\* menu choice 4: btree.update(key, numbers)
Update(key, numbers) ==
    LET r == update(Machine, key, numbers)
    IN  /\ r.m.data_len <= MaxFileLen
        /\ Install(r.m)
        /\ live' = IF r.ret = "True" /\ key \in DOMAIN live
                   THEN With(live, key, Record(key, numbers)) ELSE live
        /\ UNCHANGED <<steps, pc, cur, start_ok>>

\* search and traverse write nothing to the tree or the files; they are
\* the operators search and traverse, applied to the machine of a state
Next ==
    \/ \E key \in Keys, numbers \in InsertLists : Insert(key, numbers)
    \/ \E key \in Keys : Delete(key)
    \/ \E key \in Keys, numbers \in NumberLists : Update(key, numbers)

Spec == Init /\ [][Next]_vars

\* BTree.__init__ over the files an earlier object left (a new run of the
\* program in the same directory): the root and the counter start over,
\* the free list is what the .free file holds
BTree(m) ==
    [m EXCEPT !.root_addr = None, !.next_page_addr = 0, !.free_pages = m.free_file]


\* ------------------------------------------- trees of more than one node
\* A split never completes (lines 354 and 373), so a tree built by insert
\* from nothing stays a single leaf.  The operations on trees of one, two
\* and three levels are run on the trees insert is meant to build, put into
\* the files with _write_node and _write_record and placed under the
\* object by setting root_addr and next_page_addr, as a caller of the
\* class can do.  The record of key k sits at address k, the nodes sit at
\* the addresses from NodeBase on, the root first and every node before
\* its children.
MaxTreeKey == 29
MaxSteps == 1

TreeKeyRange == 1..MaxTreeKey
NodeBase == MaxTreeKey + 1

\* shapes: a leaf with n keys, an internal node over its children
L(n) == [n |-> n, kids |-> <<>>]
N(kids) == [n |-> 0, kids |-> kids]

RECURSIVE KeyCount(_)
KeyCount(shape) ==
    IF shape.kids = <<>> THEN shape.n
    ELSE SumSeq([j \in 1..Len(shape.kids) |-> KeyCount(shape.kids[j])])
         + Len(shape.kids) - 1

RECURSIVE CountNodes(_)
CountNodes(shape) ==
    1 + SumSeq([j \in 1..Len(shape.kids) |-> CountNodes(shape.kids[j])])

\* the rank, among the keys of the tree, of the first key below child j
\* of a node whose own first rank is rank
ChildRank(shape, rank, j) ==
    rank + SumSeq([h \in 1..(j - 1) |-> KeyCount(shape.kids[h]) + 1])

ChildAddr(shape, addr, j) ==
    addr + 1 + SumSeq([h \in 1..(j - 1) |-> CountNodes(shape.kids[h])])

RECURSIVE MergeAll(_)
MergeAll(fs) == IF fs = <<>> THEN <<>> ELSE Head(fs) @@ MergeAll(Tail(fs))

\* the nodes of a tree of this shape whose keys are stride, 2 * stride, ...
\* in key order, as a map from address to BTreeNode
RECURSIVE WriteTree(_, _, _, _, _)
WriteTree(shape, rank, stride, addr, parent_addr) ==
    LET keys == IF shape.kids = <<>>
                THEN [j \in 1..shape.n |-> stride * (rank + j - 1)]
                ELSE [j \in 1..(Len(shape.kids) - 1) |->
                        stride * (ChildRank(shape, rank, j) + KeyCount(shape.kids[j]))]
        node == [keys |-> keys,
                 addresses |-> keys,
                 children |-> [j \in 1..Len(shape.kids) |-> ChildAddr(shape, addr, j)],
                 is_leaf |-> shape.kids = <<>>,
                 parent_addr |-> parent_addr]
    IN  (addr :> node) @@
        MergeAll([j \in 1..Len(shape.kids) |->
                    WriteTree(shape.kids[j], ChildRank(shape, rank, j), stride,
                              ChildAddr(shape, addr, j), addr)])

\* the object and its files with such a tree under it
TreeMachine(shape, stride) ==
    LET keys == {stride * r : r \in 1..KeyCount(shape)}
    IN  [root_addr |-> NodeBase,
         next_page_addr |-> NodeBase + CountNodes(shape),
         free_pages |-> <<>>,
         index_file |-> WriteTree(shape, 1, stride, NodeBase, None),
         data_file |-> [k \in keys |-> [record |-> Record(k, <<1, 2>>), delta |-> 0]],
         data_len |-> stride * KeyCount(shape) * RecordSlot + PickledSize(Record(1, <<1, 2>>)),
         free_file |-> <<>>,
         exc |-> "none"]

LeafSizes == min_keys..max_keys

\* one level: a leaf root of one key to 2d keys; two levels: two or three
\* leaves of every size, with room for a new key between any two keys;
\* three levels: internal nodes at and above the minimum
TreeMachines ==
    {TreeMachine(L(a), 2) : a \in 1..max_keys}
    \cup {TreeMachine(N(<<L(a), L(b)>>), 2) : a, b \in LeafSizes}
    \cup {TreeMachine(N(<<L(a), L(b), L(c)>>), 2) : a, b, c \in LeafSizes}
    \cup {TreeMachine(N(<<N(<<L(2), L(2), L(2)>>), N(<<L(2), L(2), L(2)>>)>>), 1),
          TreeMachine(N(<<N(<<L(2), L(2), L(2)>>), N(<<L(2), L(2), L(2), L(2)>>)>>), 1),
          TreeMachine(N(<<N(<<L(2), L(2), L(2), L(2)>>), N(<<L(2), L(2), L(2)>>)>>), 1)}

InitTree ==
    \E m \in TreeMachines :
        /\ root_addr = m.root_addr
        /\ next_page_addr = m.next_page_addr
        /\ free_pages = m.free_pages
        /\ index_file = m.index_file
        /\ data_file = m.data_file
        /\ data_len = m.data_len
        /\ free_file = m.free_file
        /\ steps = 0
        /\ pc = "idle"
        /\ cur = None
        /\ start_ok = TRUE
        /\ live = [k \in DOMAIN m.data_file |-> m.data_file[k].record]

\* btree.insert(Record(key, [1, 2])) on such a tree
TreeInsert(key) ==
    LET r == insert(Machine, Record(key, <<1, 2>>))
    IN  /\ steps < MaxSteps
        /\ Install(r.m)
        /\ steps' = steps + 1
        /\ live' = IF r.ret = "True" THEN With(live, key, Record(key, <<1, 2>>)) ELSE live
        /\ UNCHANGED <<pc, cur, start_ok>>

\* btree.delete(key) on such a tree
TreeDelete(key) ==
    LET r == delete(Machine, key)
    IN  /\ steps < MaxSteps
        /\ Install(r.m)
        /\ steps' = steps + 1
        /\ live' = IF r.ret = "True" THEN Without(live, key) ELSE live
        /\ UNCHANGED <<pc, cur, start_ok>>

NextTree ==
    \/ \E key \in TreeKeyRange : TreeInsert(key)
    \/ \E key \in TreeKeyRange : TreeDelete(key)

SpecTree == InitTree /\ [][NextTree]_vars

\* ------------------------------------------------------ tree observers
\* the addresses of the nodes reachable from node_addr by child pointers
RECURSIVE Below(_, _)
Below(m, node_addr) ==
    IF ~HasNode(m, node_addr) THEN {node_addr}
    ELSE LET node == read_node(m, node_addr)
         IN  {node_addr} \cup
             (IF node.is_leaf THEN {}
              ELSE UNION {Below(m, node.children[j]) : j \in 1..Len(node.children)})

Reachable(m) == IF m.root_addr = None THEN {} ELSE Below(m, m.root_addr)

SeqRange(s) == {s[j] : j \in 1..Len(s)}

\* the keys held by the nodes at and below node_addr
SubtreeKeys(m, node_addr) ==
    UNION {SeqRange(read_node(m, a).keys) : a \in {b \in Below(m, node_addr) : HasNode(m, b)}}

TreeKeys(m) == IF m.root_addr = None THEN {} ELSE SubtreeKeys(m, m.root_addr)

\* the leaf that the descent of _insert_recursive ends in for this key,
\* None when the descent cannot be made
RECURSIVE LeafFor(_, _, _)
LeafFor(m, node_addr, key) ==
    IF ~HasNode(m, node_addr) THEN None
    ELSE LET node == read_node(m, node_addr)
             i == Scan(node.keys, key)
         IN  IF node.is_leaf THEN node_addr
             ELSE IF i >= Len(node.children) THEN None
             ELSE LeafFor(m, At(node.children, i), key)

\* the record addresses held by the nodes reachable from the root
RecordAddrs(m) ==
    UNION {SeqRange(read_node(m, a).addresses) : a \in {b \in Reachable(m) : HasNode(m, b)}}

\* the (key, record address) pairs held by the reachable nodes
NodePairs(node) ==
    {<<node.keys[j], node.addresses[j]>> :
        j \in {h \in 1..Len(node.keys) : h <= Len(node.addresses)}}

Pairs(m) ==
    UNION {NodePairs(read_node(m, a)) : a \in {b \in Reachable(m) : HasNode(m, b)}}

\* the position of a node in the children of the node above it, and the
\* addresses of the siblings next to it (None where there is none)
IndexInParent(m, node_addr) ==
    LET par == read_node(m, node_addr).parent_addr
    IN  IF par = None \/ ~HasNode(m, par) THEN None
        ELSE ListIndex(read_node(m, par).children, node_addr)

LeftSibling(m, node_addr) ==
    LET idx == IndexInParent(m, node_addr)
    IN  IF idx = None \/ idx = 0 THEN None
        ELSE At(read_node(m, read_node(m, node_addr).parent_addr).children, idx - 1)

RightSibling(m, node_addr) ==
    LET idx == IndexInParent(m, node_addr)
        children == read_node(m, read_node(m, node_addr).parent_addr).children
    IN  IF idx = None \/ idx >= Len(children) - 1 THEN None
        ELSE At(children, idx + 1)

\* whether the sibling at addr exists and holds fewer than 2d keys
HasRoom(m, addr) ==
    addr # None /\ HasNode(m, addr) /\ Len(read_node(m, addr).keys) < max_keys

\* the slots (node address, position) of the reachable nodes that hold
\* this record address
Refs(m, addr) ==
    {<<a, j>> \in {b \in Reachable(m) : HasNode(m, b)} \X (1..(max_keys + 1)) :
        j <= Len(read_node(m, a).addresses) /\ read_node(m, a).addresses[j] = addr}

\* the reachable internal nodes that hold this key
InternalHolders(m, key) ==
    {a \in Reachable(m) :
        HasNode(m, a) /\ ~read_node(m, a).is_leaf /\ key \in SeqRange(read_node(m, a).keys)}

SetMax(S) == CHOOSE x \in S : \A y \in S : y <= x

\* the root has no parent and every child of a reachable node names that
\* node as its parent
ParentsConsistent(m) ==
    m.root_addr # None =>
        /\ HasNode(m, m.root_addr)
        /\ read_node(m, m.root_addr).parent_addr = None
        /\ \A a \in {b \in Reachable(m) : HasNode(m, b)} :
               ~read_node(m, a).is_leaf =>
                   \A c \in SeqRange(read_node(m, a).children) :
                       HasNode(m, c) /\ read_node(m, c).parent_addr = a

StrictlyIncreasing(s) == \A j \in 1..(Len(s) - 1) : s[j] < s[j + 1]

\* menu choice 1 taken once for every key of keys, each time with the
\* numbers 1 2; an insert that raises is reported (line 685) and the
\* next one is made on what it left
RECURSIVE InsertEach(_, _)
InsertEach(m, keys) ==
    IF keys = <<>> THEN m
    ELSE InsertEach(insert(m, Record(Head(keys), <<1, 2>>)).m, Tail(keys))

\* --------------------------------------------------------------- claims
KeysOf(records) == [j \in 1..Len(records) |-> records[j].key]

\* C1: search(k) returns the record inserted for k for every key inserted
\* and not deleted since, and None for every other key.
C1_SearchFindsLiveKeys ==
    \A k \in Keys :
        search(Machine, k) =
            IF k \in DOMAIN live THEN RecordResult(live[k]) ELSE NoneResult

\* C2: traverse() returns records with strictly ascending keys whose key
\* set is exactly the set of keys inserted and not deleted since.
C2_TraverseListsLiveKeys ==
    LET t == traverse(Machine)
    IN  /\ t.exc = "none"
        /\ StrictlyIncreasing(KeysOf(t.records))
        /\ SeqRange(KeysOf(t.records)) = DOMAIN live

\* C3: insert of a key that is not in the tree returns True, also when
\* the leaf that receives the key already holds 2d keys.
C3_InsertOfNewKeyReturnsTrue ==
    \A key \in Keys \ TreeKeys(Machine), numbers \in InsertLists :
        insert(Machine, Record(key, numbers)).ret = "True"

C7_DuplicateInsertChangesNothing ==
    \A key \in Keys, numbers \in NumberLists :
        search(Machine, key).kind = "Record" =>
            LET r == insert(Machine, Record(key, numbers))
            IN  r.ret = "False" /\ r.m = Machine

\* a tree with a key that search resolves, on which insert answers False
C7_Witness ==
    \E key \in Keys :
        /\ key \in TreeKeys(Machine)
        /\ search(Machine, key).kind = "Record"
        /\ insert(Machine, Record(key, <<3, 1>>)).ret = "False"

\* C8: delete and update of a key that is not in the tree return False
\* and leave the index nodes, the data records, root_addr, next_page_addr
\* and the free pool as they were, also on the empty tree.
C8_MissingKeyChangesNothing ==
    \A key \in Keys \ TreeKeys(Machine) :
        /\ delete(Machine, key) = [m |-> Machine, ret |-> "False"]
        /\ \A numbers \in NumberLists :
               update(Machine, key, numbers) = [m |-> Machine, ret |-> "False"]

\* a tree with keys on both sides of a key it does not hold, on which
\* delete of that key answers False
C8_Witness ==
    \E key \in Keys \ TreeKeys(Machine) :
        /\ \E lo, hi \in TreeKeys(Machine) : lo < key /\ key < hi
        /\ delete(Machine, key).ret = "False"
        /\ free_pages # <<>>

\* C9: for a key k that is not in the tree, insert of k followed by
\* delete(k) gives a tree in which search returns for every other key what
\* it returned before, and None for k.
C9_InsertThenDeleteRestoresSearch ==
    \A k \in Keys \ TreeKeys(Machine), numbers \in InsertLists :
        LET m1 == insert(Machine, Record(k, numbers)).m
            m2 == delete(m1, k).m
        IN  /\ search(m2, k) = NoneResult
            /\ \A other \in Keys \ {k} : search(m2, other) = search(Machine, other)

\* C10: update of a key that is in the tree returns True; afterwards
\* search(key) returns the key with the new numbers and their sum, and the
\* index nodes, root_addr, the free pool and the records of the other
\* keys are as they were.
C10_UpdateReplacesNumbers ==
    \A key \in TreeKeys(Machine), numbers \in NumberLists :
        LET r == update(Machine, key, numbers)
            found == search(r.m, key)
        IN  /\ r.ret = "True"
            /\ found = RecordResult(Record(key, numbers))
            /\ get_sum(found) = SumSeq(numbers)
            /\ r.m.index_file = index_file
            /\ r.m.root_addr = root_addr
            /\ r.m.free_pages = free_pages
            /\ \A other \in TreeKeys(Machine) \ {key} :
                   search(r.m, other) = search(Machine, other)

\* C11: on an empty tree with d = 2, inserting the keys 10, 20, 5, 6, 12,
\* 30, 7, 17 in this order makes the root an internal node with one key
\* after the fifth insert; afterwards search(6) returns the record of key
\* 6, and after delete(10) traverse() returns the keys 5, 6, 7, 12, 17, 20,
\* 30 in this order.
C11_Scenario ==
    (root_addr = None /\ index_file = <<>> /\ data_len = 0) =>
        LET after5 == InsertEach(Machine, <<10, 20, 5, 6, 12>>)
            after8 == InsertEach(after5, <<30, 7, 17>>)
            after9 == delete(after8, 10).m
            t == traverse(after9)
        IN  /\ HasNode(after5, after5.root_addr)
            /\ ~read_node(after5, after5.root_addr).is_leaf
            /\ Len(read_node(after5, after5.root_addr).keys) = 1
            /\ search(after8, 6) = RecordResult(Record(6, <<1, 2>>))
            /\ t.exc = "none"
            /\ KeysOf(t.records) = <<5, 6, 7, 12, 17, 20, 30>>

\* a list of numbers whose record pickles to more than one record slot
OversizeNumbers == [j \in 1..(RecordSlot \div 2) |-> 1]

\* C12: insert of a record whose pickle is longer than the 1024 bytes of a
\* record slot fails with an error and leaves next_page_addr, the free
\* pool, every index node and the slots of the other records as they were.
C12_OversizeInsertFails ==
    \A key \in Keys \ TreeKeys(Machine) :
        PickledSize(Record(key, OversizeNumbers)) > RecordSlot =>
            LET r == insert(Machine, Record(key, OversizeNumbers))
            IN  /\ r.ret \notin {"True", "False"}
                /\ r.m.next_page_addr = next_page_addr
                /\ r.m.free_pages = free_pages
                /\ r.m.index_file = index_file
                /\ r.m.data_file = data_file

Round(m, key) == delete(insert(m, Record(key, <<1, 2>>)).m, key).m

\* C14: an allocation takes its address from free_pages and leaves
\* next_page_addr alone when free_pages is not empty, and hands out
\* next_page_addr, raising it by one, only when free_pages is empty; so on
\* a tree that holds a key, rounds of insert and delete of one key into a
\* leaf with room do not raise next_page_addr after the first round.
C14_AllocationReusesFreedPages ==
    /\ LET a == get_new_page_addr(Machine)
       IN  IF free_pages # <<>>
           THEN /\ a.addr = free_pages[Len(free_pages)]
                /\ a.m.next_page_addr = next_page_addr
                /\ Len(a.m.free_pages) = Len(free_pages) - 1
           ELSE /\ a.addr = next_page_addr
                /\ a.m.next_page_addr = next_page_addr + 1
    /\ \A key \in Keys \ TreeKeys(Machine) :
           (/\ TreeKeys(Machine) # {}
            /\ LeafFor(Machine, root_addr, key) # None
            /\ ~is_full(read_node(Machine, LeafFor(Machine, root_addr, key)))) =>
               LET first == Round(Machine, key)
                   second == Round(first, key)
                   third == Round(second, key)
               IN  /\ second.next_page_addr = first.next_page_addr
                   /\ third.next_page_addr = first.next_page_addr

\* a tree with a key and room in its leaf whose free pool is empty, so
\* that the first round takes a new address and the second one reuses it
C14_Witness ==
    /\ free_pages = <<>>
    /\ TreeKeys(Machine) # {}
    /\ \E key \in Keys \ TreeKeys(Machine) :
           /\ ~is_full(read_node(Machine, root_addr))
           /\ insert(Machine, Record(key, <<1, 2>>)).ret = "True"
           /\ Round(Machine, key).next_page_addr = next_page_addr + 1
           /\ Round(Machine, key).free_pages # <<>>
           /\ Round(Round(Machine, key), key).next_page_addr = next_page_addr + 1

\* C15: a BTree constructed over the files of an earlier object has that
\* object's root address and next-page counter, so every key that search
\* found before is found as before, and the next allocation hands out no
\* address that holds a node or a record of the tree.
C15_RestartRestoresTree ==
    LET m == BTree(Machine)
    IN  /\ m.root_addr = root_addr
        /\ m.next_page_addr = next_page_addr
        /\ \A k \in Keys :
               search(Machine, k).kind = "Record" => search(m, k) = search(Machine, k)
        /\ get_new_page_addr(m).addr \notin Reachable(Machine) \cup RecordAddrs(Machine)

\* C16: the split of a node with 2d + 1 keys leaves the lower d keys with
\* their record addresses in the node, moves the upper d keys with their
\* addresses to a new node and puts the middle key with its own record
\* address into the parent; for the root, a new internal root with that
\* one key and the two halves as children is made and root_addr points to
\* it.  Stated for the insert that overflows a root leaf of 2d keys.
C16_RootSplit ==
    \A key \in Keys \ TreeKeys(Machine) :
        (/\ root_addr # None
         /\ index_file[root_addr].is_leaf
         /\ Len(index_file[root_addr].keys) = max_keys) =>
            LET old == index_file[root_addr]
                i == Scan(old.keys, key)
                all_keys == ListInsert(old.keys, i, key)
                all_addrs == ListInsert(old.addresses, i, get_new_page_addr(Machine).addr)
                m == insert(Machine, Record(key, <<1, 2>>)).m
            IN  /\ m.root_addr # root_addr
                /\ HasNode(m, m.root_addr)
                /\ LET root == read_node(m, m.root_addr)
                   IN  /\ ~root.is_leaf
                       /\ root.keys = <<At(all_keys, d)>>
                       /\ root.addresses = <<At(all_addrs, d)>>
                       /\ Len(root.children) = 2
                       /\ At(root.children, 0) = root_addr
                       /\ HasNode(m, At(root.children, 1))
                       /\ read_node(m, root_addr).keys = Slice(all_keys, 0, d)
                       /\ read_node(m, root_addr).addresses = Slice(all_addrs, 0, d)
                       /\ read_node(m, At(root.children, 1)).keys
                              = Slice(all_keys, d + 1, 2 * d + 1)
                       /\ read_node(m, At(root.children, 1)).addresses
                              = Slice(all_addrs, d + 1, 2 * d + 1)

Allocated(m) ==
    (m.next_page_addr - next_page_addr) + (Len(free_pages) - Len(m.free_pages))

\* whether the node at addr is another one after the operation
Changed(m, addr) == addr # None /\ read_node(m, addr) # read_node(Machine, addr)

\* C18: when an insert overflows a node that is not the root, the node is
\* split only if neither the sibling to its left nor the one to its right
\* (under the same parent) holds fewer than 2d keys; a left sibling with
\* room is the one used, the right sibling is used only when the left one
\* is missing or full; a compensation allocates no page (the insert takes
\* the one page of its record) and no node is split.
C18_CompensationBeforeSplit ==
    \A key \in TreeKeyRange \ TreeKeys(Machine) :
        LET leaf == LeafFor(Machine, root_addr, key)
        IN  (/\ leaf # None
             /\ leaf # root_addr
             /\ Len(read_node(Machine, leaf).keys) = max_keys
             /\ read_node(Machine, leaf).parent_addr \in Reachable(Machine)
             /\ IndexInParent(Machine, leaf) # None
             \* the insert gets as far as the leaf (line 174 raises for an
             \* address None taken from the free pool)
             /\ get_new_page_addr(Machine).addr # None) =>
                LET r == insert(Machine, Record(key, <<1, 2>>))
                    left == LeftSibling(Machine, leaf)
                    right == RightSibling(Machine, leaf)
                IN  /\ HasRoom(Machine, left) =>
                           /\ r.ret = "True"
                           /\ Changed(r.m, left)
                           /\ ~Changed(r.m, right)
                           /\ Allocated(r.m) = 1
                           /\ DOMAIN r.m.index_file = DOMAIN index_file
                    /\ (~HasRoom(Machine, left) /\ HasRoom(Machine, right)) =>
                           /\ r.ret = "True"
                           /\ Changed(r.m, right)
                           /\ ~Changed(r.m, left)
                           /\ Allocated(r.m) = 1
                           /\ DOMAIN r.m.index_file = DOMAIN index_file
                    /\ Allocated(r.m) > 1 =>
                           ~HasRoom(Machine, left) /\ ~HasRoom(Machine, right)

\* a full leaf between a full left sibling and a right sibling with room,
\* on which the insert compensates with the right sibling
C18_Witness ==
    \E key \in TreeKeyRange \ TreeKeys(Machine) :
        LET leaf == LeafFor(Machine, root_addr, key)
        IN  /\ leaf # None
            /\ leaf # root_addr
            /\ Len(read_node(Machine, leaf).keys) = max_keys
            /\ LeftSibling(Machine, leaf) # None
            /\ ~HasRoom(Machine, LeftSibling(Machine, leaf))
            /\ HasRoom(Machine, RightSibling(Machine, leaf))
            /\ insert(Machine, Record(key, <<1, 2>>)).ret = "True"
            /\ Changed(insert(Machine, Record(key, <<1, 2>>)).m, RightSibling(Machine, leaf))

PairAt(node, j) ==
    <<node.keys[j], IF j <= Len(node.addresses) THEN node.addresses[j] ELSE None>>

RECURSIVE Flatten(_)
Flatten(ss) == IF ss = <<>> THEN <<>> ELSE Head(ss) \o Flatten(Tail(ss))

RECURSIVE InOrderPairs(_, _)
InOrderPairs(m, node_addr) ==
    IF ~HasNode(m, node_addr) THEN <<>>
    ELSE LET node == read_node(m, node_addr)
         IN  IF node.is_leaf THEN [j \in 1..Len(node.keys) |-> PairAt(node, j)]
             ELSE Flatten([j \in 1..(Len(node.keys) + 1) |->
                    (IF j <= Len(node.children)
                     THEN InOrderPairs(m, node.children[j]) ELSE <<>>)
                    \o (IF j <= Len(node.keys) THEN <<PairAt(node, j)>> ELSE <<>>)])

TreePairs(m) == IF m.root_addr = None THEN <<>> ELSE InOrderPairs(m, m.root_addr)

\* a sequence of pairs without the pair of this key
WithoutKey(pairs, key) ==
    LET keep(p) == p[1] # key
    IN  SelectSeq(pairs, keep)

\* the rightmost leaf below node_addr (the leaf _get_predecessor ends in)
RECURSIVE RightmostLeaf(_, _)
RightmostLeaf(m, node_addr) ==
    IF ~HasNode(m, node_addr) THEN None
    ELSE LET node == read_node(m, node_addr)
         IN  IF node.is_leaf THEN node_addr
             ELSE IF node.children = <<>> THEN None
             ELSE RightmostLeaf(m, node.children[Len(node.children)])

\* the leaf that _delete_recursive takes a key out of when it is called
\* for this key: the leaf that holds the key, or the leaf of its
\* predecessor when an internal node holds it; None when there is none
RECURSIVE RemovalLeaf(_, _, _)
RemovalLeaf(m, node_addr, key) ==
    IF ~HasNode(m, node_addr) THEN None
    ELSE LET node == read_node(m, node_addr)
             i == Scan(node.keys, key)
         IN  IF key_found(node, i, key)
             THEN IF node.is_leaf THEN node_addr
                  ELSE IF i >= Len(node.children) THEN None
                  ELSE RightmostLeaf(m, At(node.children, i))
             ELSE IF node.is_leaf \/ i >= Len(node.children) THEN None
             ELSE RemovalLeaf(m, At(node.children, i), key)

\* whether the node at addr exists and holds more than d keys
CanLend(m, addr) ==
    addr # None /\ HasNode(m, addr) /\ Len(read_node(m, addr).keys) > min_keys

\* the sibling _handle_underflow borrows from: the left one when it can
\* lend, else the right one when it can, else None
Lender(m, node_addr) ==
    IF CanLend(m, LeftSibling(m, node_addr)) THEN LeftSibling(m, node_addr)
    ELSE IF CanLend(m, RightSibling(m, node_addr)) THEN RightSibling(m, node_addr)
    ELSE None

\* a node that is not the root, is listed once by the parent it names,
\* and whose parent and siblings pair every key with an address
InPlace(m, node_addr) ==
    /\ node_addr # None /\ HasNode(m, node_addr)
    /\ node_addr # m.root_addr
    /\ read_node(m, node_addr).parent_addr \in Reachable(m)
    /\ IndexInParent(m, node_addr) # None
    /\ \A a \in {node_addr, read_node(m, node_addr).parent_addr,
                 LeftSibling(m, node_addr), RightSibling(m, node_addr)} \ {None} :
           /\ HasNode(m, a)
           /\ Len(read_node(m, a).addresses) = Len(read_node(m, a).keys)
           /\ None \notin SeqRange(read_node(m, a).addresses)
           /\ ~read_node(m, a).is_leaf =>
                  Len(read_node(m, a).children) = Len(read_node(m, a).keys) + 1

\* the separator pair of the parent at position sep when the borrowing
\* happens: the pair the parent had, or the predecessor's pair that lines
\* 430-431 put in its place when the parent held the deleted key there
SeparatorPair(m, parent_addr, sep, key) ==
    LET parent == read_node(m, parent_addr)
        pred == get_predecessor(m, At(parent.children, sep))
    IN  IF At(parent.keys, sep) = key THEN <<pred.key, pred.addr>>
        ELSE <<At(parent.keys, sep), At(parent.addresses, sep)>>

\* what borrowing leaves, m0 being the machine before delete(key), m the
\* one after it, node_addr the node that dropped to d - 1 keys
Borrowed(m0, m, node_addr, key) ==
    LET src == Lender(m0, node_addr)
        other == IF src = LeftSibling(m0, node_addr)
                 THEN RightSibling(m0, node_addr) ELSE LeftSibling(m0, node_addr)
        from_left == src = LeftSibling(m0, node_addr)
        idx == IndexInParent(m0, node_addr)
        sep == IF from_left THEN idx - 1 ELSE idx
        par == read_node(m0, node_addr).parent_addr
        node1 == read_node(m, node_addr)
        src0 == read_node(m0, src)
        src1 == read_node(m, src)
        parent0 == read_node(m0, par)
        parent1 == read_node(m, par)
    IN  /\ Len(node1.keys) = min_keys
        /\ Len(node1.addresses) = min_keys
        /\ Len(src1.keys) = Len(src0.keys) - 1
        /\ Len(src1.keys) >= min_keys
        /\ Len(parent1.keys) = Len(parent0.keys)
        \* the separator with its address goes down, the sibling's
        \* outermost key with its address goes up
        /\ IF from_left
           THEN /\ PairAt(node1, 1) = SeparatorPair(m0, par, sep, key)
                /\ PairAt(parent1, sep + 1) = PairAt(src0, Len(src0.keys))
                /\ src1.keys = SubSeq(src0.keys, 1, Len(src0.keys) - 1)
                /\ src1.addresses = SubSeq(src0.addresses, 1, Len(src0.addresses) - 1)
           ELSE /\ PairAt(node1, Len(node1.keys)) = SeparatorPair(m0, par, sep, key)
                /\ PairAt(parent1, sep + 1) = PairAt(src0, 1)
                /\ src1.keys = Tail(src0.keys)
                /\ src1.addresses = Tail(src0.addresses)
        \* the outermost child of an internal sibling goes with them
        /\ IF node1.is_leaf THEN src1.children = src0.children
           ELSE /\ Len(node1.children) = min_keys + 1
                /\ IF from_left
                   THEN /\ node1.children[1] = src0.children[Len(src0.children)]
                        /\ src1.children = SubSeq(src0.children, 1, Len(src0.children) - 1)
                   ELSE /\ node1.children[Len(node1.children)] = src0.children[1]
                        /\ src1.children = Tail(src0.children)
        /\ other # None => read_node(m, other) = read_node(m0, other)
        /\ TreePairs(m) = WithoutKey(TreePairs(m0), key)
        /\ m.next_page_addr = m0.next_page_addr
        /\ DOMAIN m.index_file = DOMAIN m0.index_file

\* C21: when delete(key) leaves a node that is not the root with d - 1
\* keys and a sibling next to it holds more than d keys, the left sibling
\* is the one used when it can lend, else the right one; the parent's
\* separator goes down into the node with its record address, the
\* sibling's outermost key goes up into the parent with its record
\* address, and the outermost child of an internal sibling goes to the
\* node; afterwards the node has d keys, the sibling at least d, the parent
\* as many keys as before, the in-order sequence of (key, address) pairs is
\* the old one without the deleted key, and the borrowing allocates and
\* frees nothing: the free pool grows by the record of the delete alone
\* when a leaf borrows, and by that record and the leaf absorbed one
\* level below when an internal node borrows.
C21_BorrowRotatesThroughParent ==
    \A key \in TreeKeyRange :
        LET leaf == RemovalLeaf(Machine, root_addr, key)
            r == delete(Machine, key)
        IN  (/\ root_addr # None
             /\ leaf # None
             /\ InPlace(Machine, leaf)
             /\ Len(read_node(Machine, leaf).keys) = min_keys) =>
                LET par == read_node(Machine, leaf).parent_addr
                IN  /\ Lender(Machine, leaf) # None =>
                           /\ r.ret = "True"
                           /\ Borrowed(Machine, r.m, leaf, key)
                           /\ Len(r.m.free_pages) = Len(free_pages) + 1
                    /\ (/\ Lender(Machine, leaf) = None
                        /\ InPlace(Machine, par)
                        /\ Len(read_node(Machine, par).keys) = min_keys
                        /\ Lender(Machine, par) # None) =>
                           /\ r.ret = "True"
                           /\ Borrowed(Machine, r.m, par, key)
                           /\ Len(r.m.free_pages) = Len(free_pages) + 2

\* an internal node under the root that drops to d - 1 keys by the merge
\* of two of its leaves and borrows from the internal node to its right
C21_Witness ==
    \E key \in TreeKeyRange :
        LET leaf == RemovalLeaf(Machine, root_addr, key)
        IN  /\ root_addr # None
            /\ leaf # None
            /\ InPlace(Machine, leaf)
            /\ Len(read_node(Machine, leaf).keys) = min_keys
            /\ Lender(Machine, leaf) = None
            /\ InPlace(Machine, read_node(Machine, leaf).parent_addr)
            /\ Len(read_node(Machine, read_node(Machine, leaf).parent_addr).keys) = min_keys
            /\ Lender(Machine, read_node(Machine, leaf).parent_addr)
                   = RightSibling(Machine, read_node(Machine, leaf).parent_addr)
            /\ delete(Machine, key).ret = "True"
            /\ Len(read_node(delete(Machine, key).m,
                             read_node(Machine, leaf).parent_addr).keys) = min_keys

\* how often x occurs in s
Count(s, x) == Cardinality({j \in 1..Len(s) : s[j] = x})

\* the case of lines 474-480: node_addr is in place below the minimum
\* and neither sibling can lend
MergeCase(m, node_addr) ==
    /\ InPlace(m, node_addr)
    /\ Len(read_node(m, node_addr).keys) = min_keys - 1
    /\ Lender(m, node_addr) = None

\* what one call of _handle_underflow leaves in the case of a merge, m
\* being the machine before the call
Merged(m, node_addr) ==
    LET idx == IndexInParent(m, node_addr)
        par == read_node(m, node_addr).parent_addr
        left_addr == IF idx > 0 THEN LeftSibling(m, node_addr) ELSE node_addr
        right_addr == IF idx > 0 THEN node_addr ELSE RightSibling(m, node_addr)
        sep == IF idx > 0 THEN idx - 1 ELSE idx
        r == handle_underflow_once(m, node_addr)
        left0 == read_node(m, left_addr)
        right0 == read_node(m, right_addr)
        parent0 == read_node(m, par)
        left1 == read_node(r.m, left_addr)
        parent1 == read_node(r.m, par)
    IN  /\ Ok(r.m)
        \* the left node survives with the three parts in order
        /\ left1.keys = left0.keys \o <<At(parent0.keys, sep)>> \o right0.keys
        /\ left1.addresses
               = left0.addresses \o <<At(parent0.addresses, sep)>> \o right0.addresses
        /\ Len(left1.keys) = max_keys
        /\ ~left0.is_leaf => left1.children = left0.children \o right0.children
        \* the parent loses the separator and the pointer to the right node
        /\ parent1.keys = ListPop(parent0.keys, sep)
        /\ parent1.addresses = ListPop(parent0.addresses, sep)
        /\ parent1.children = ListPop(parent0.children, sep + 1)
        /\ right_addr \notin SeqRange(parent1.children)
        \* the right node's page goes to the free pool, once
        /\ r.m.free_pages = Append(m.free_pages, right_addr)
        /\ Count(r.m.free_pages, right_addr) = 1
        /\ r.m.free_file = r.m.free_pages
        \* the repair goes on at the parent exactly when it is not the
        \* root and is below the minimum
        /\ r.next = IF par # m.root_addr /\ Len(parent1.keys) < min_keys
                    THEN par ELSE None

\* C22: when delete(key) leaves a node that is not the root with d - 1
\* keys and no sibling next to it holds more than d keys, the node is
\* merged with its left sibling, or with the right one when it has no
\* left sibling: the left node of the two survives with its own pairs, the
\* parent's separator with its address and the right node's pairs in this
\* order (2d keys), and with the children of both when they are internal;
\* the parent loses the separator and the pointer to the right node; the
\* right node's address is added to the free pool once; the repair goes
\* on at the parent exactly when the parent is not the root and holds
\* fewer than d keys, and delete(key) leaves what these steps leave.
C22_MergeAbsorbsRightNode ==
    \A key \in TreeKeyRange :
        root_addr # None =>
            LET s0 == delete_descent(Machine, root_addr, key)
                s1 == handle_underflow_once(s0.m, s0.under)
            IN  /\ (s0.under # None /\ MergeCase(s0.m, s0.under)) =>
                       /\ Merged(s0.m, s0.under)
                       /\ (s1.next # None /\ MergeCase(s1.m, s1.next)) =>
                              Merged(s1.m, s1.next)
                       /\ delete_recursive(Machine, root_addr, key).m
                              = underflow_chain(s0.m, s0.under)

\* a delete that merges two leaves and then, one level up, two internal
\* nodes under the root
C22_Witness ==
    \E key \in TreeKeyRange :
        /\ root_addr # None
        /\ LET s0 == delete_descent(Machine, root_addr, key)
               s1 == handle_underflow_once(s0.m, s0.under)
               s2 == handle_underflow_once(s1.m, s1.next)
           IN  /\ s0.under # None
               /\ MergeCase(s0.m, s0.under)
               /\ s1.next # None
               /\ MergeCase(s1.m, s1.next)
               /\ Ok(s2.m)
               /\ s2.next = None
               /\ delete(Machine, key).ret = "True"

\* the number of levels at and below node_addr
RECURSIVE HeightBelow(_, _)
HeightBelow(m, node_addr) ==
    IF ~HasNode(m, node_addr) THEN 0
    ELSE LET node == read_node(m, node_addr)
         IN  IF node.is_leaf \/ node.children = <<>> THEN 1
             ELSE 1 + SetMax({HeightBelow(m, node.children[j]) :
                                j \in 1..Len(node.children)})

Height(m) == IF m.root_addr = None THEN 0 ELSE HeightBelow(m, m.root_addr)

\* C23: when _delete_recursive returns True and leaves the root an
\* internal node without keys, that node has one child, delete makes the
\* child the root, appends the old root's address to the free pool and
\* leaves a tree one level lower than before; when the root is a leaf and
\* its last key is deleted, the empty leaf stays the root, and an insert
\* made next puts its key into that leaf.
C23_RootCollapses ==
    root_addr # None =>
        \A key \in TreeKeyRange :
            LET r == delete_recursive(Machine, root_addr, key)
                d1 == delete(Machine, key)
                root0 == read_node(Machine, root_addr)
            IN  /\ (/\ Ok(r.m) /\ r.result
                    /\ ~read_node(r.m, root_addr).is_leaf
                    /\ read_node(r.m, root_addr).keys = <<>>) =>
                       /\ d1.ret = "True"
                       /\ Len(read_node(r.m, root_addr).children) = 1
                       /\ d1.m.root_addr = read_node(r.m, root_addr).children[1]
                       /\ d1.m.root_addr # root_addr
                       /\ d1.m.free_pages = Append(r.m.free_pages, root_addr)
                       /\ Height(d1.m) = Height(Machine) - 1
                /\ (root0.is_leaf /\ root0.keys = <<key>>) =>
                       /\ d1.ret = "True"
                       /\ d1.m.root_addr = root_addr
                       /\ read_node(d1.m, root_addr).is_leaf
                       /\ read_node(d1.m, root_addr).keys = <<>>
                       /\ \A key2 \in TreeKeyRange :
                              LET i2 == insert(d1.m, Record(key2, <<1, 2>>))
                              IN  /\ i2.ret = "True"
                                  /\ i2.m.root_addr = root_addr
                                  /\ read_node(i2.m, root_addr).is_leaf
                                  /\ read_node(i2.m, root_addr).keys = <<key2>>

\* a delete that merges the two children of a root of one key
C23_Witness ==
    /\ root_addr # None
    /\ \E key \in TreeKeyRange :
           LET r == delete_recursive(Machine, root_addr, key)
           IN  /\ Ok(r.m) /\ r.result
               /\ ~read_node(r.m, root_addr).is_leaf
               /\ read_node(r.m, root_addr).keys = <<>>
               /\ delete(Machine, key).ret = "True"
               /\ delete(Machine, key).m.root_addr \in SeqRange(index_file[root_addr].children)

\* C24: an insert that passes the duplicate test and gets the address a
\* from the allocator leaves its record in slot a of the data file:
\* _read_record(a) returns that record afterwards, and every other slot
\* holds what it held before.
C24_RecordWrittenToItsSlot ==
    \A key \in Keys, numbers \in InsertLists :
        LET a == get_new_page_addr(Machine).addr
            r == insert(Machine, Record(key, numbers))
        IN  (search(Machine, key).kind = "None" /\ a # None) =>
                /\ read_record(r.m, a) = RecordResult(Record(key, numbers))
                /\ \A b \in (DOMAIN data_file) \ {a} :
                       /\ b \in DOMAIN r.m.data_file
                       /\ r.m.data_file[b] = data_file[b]

\* the nodes on the way of search(key) from node_addr down to the node
\* where the search ends, that node included
RECURSIVE DescentPath(_, _, _)
DescentPath(m, node_addr, key) ==
    IF ~HasNode(m, node_addr) THEN <<node_addr>>
    ELSE LET node == read_node(m, node_addr)
             i == Scan(node.keys, key)
         IN  IF key_found(node, i, key) \/ node.is_leaf \/ i >= Len(node.children)
             THEN <<node_addr>>
             ELSE <<node_addr>> \o DescentPath(m, At(node.children, i), key)

\* C25: search(key) adds to stats.reads one read for every node on the
\* way from the root to the node where the search ends, and one more for
\* the record when that node holds the key; it adds nothing to
\* stats.writes; on an empty tree it reads nothing.
C25_SearchReadsPathAndRecord ==
    \A key \in Keys :
        /\ search_writes(Machine, key) = 0
        /\ root_addr = None => search_reads(Machine, key) = 0
        /\ root_addr # None =>
               LET path == DescentPath(Machine, root_addr, key)
                   last == read_node(Machine, path[Len(path)])
               IN  search_reads(Machine, key)
                       = Len(path) + (IF key \in SeqRange(last.keys) THEN 1 ELSE 0)

\* ------------------------------------------------ the calls step by step
\* insert and delete on the trees placed under the object, with every
\* call of _handle_overflow and of _handle_underflow a step of its own.
\* An exception leaves the call at once (run_interactive reports it and
\* shows the menu again), so the step that raises ends at "idle".

\* menu choice 1 up to line 208
StartInsert(key) ==
    LET r == insert_descent(Machine, Record(key, <<1, 2>>))
    IN  /\ pc = "idle"
        /\ steps < MaxSteps
        /\ Install(r.m)
        /\ steps' = steps + 1
        /\ pc' = IF r.over # None THEN "overflow" ELSE "idle"
        /\ cur' = r.over
        /\ start_ok' = ParentsConsistent(Machine)
        /\ live' = IF insert(Machine, Record(key, <<1, 2>>)).ret = "True"
                   THEN With(live, key, Record(key, <<1, 2>>)) ELSE live

\* one call of _handle_overflow
OverflowStep ==
    /\ pc = "overflow"
    /\ \E r \in {handle_overflow_once(Machine, cur)} :
        /\ Install(r.m)
        /\ pc' = IF r.next # None THEN "overflow" ELSE "idle"
        /\ cur' = r.next
        /\ UNCHANGED <<steps, start_ok, live>>

\* menu choice 3 up to line 423 (line 392 when no repair is needed)
StartDelete(key) ==
    LET r == IF root_addr = None
             THEN [m |-> Machine, result |-> FALSE, under |-> None]
             ELSE delete_descent(Machine, root_addr, key)
    IN  /\ pc = "idle"
        /\ steps < MaxSteps
        /\ Install(r.m)
        /\ steps' = steps + 1
        /\ pc' = IF r.under # None THEN "underflow"
                 ELSE IF Ok(r.m) /\ r.result THEN "root"
                 ELSE "idle"
        /\ cur' = r.under
        /\ start_ok' = ParentsConsistent(Machine)
        /\ live' = IF delete(Machine, key).ret = "True" THEN Without(live, key) ELSE live

\* one call of _handle_underflow
UnderflowStep ==
    /\ pc = "underflow"
    /\ \E r \in {handle_underflow_once(Machine, cur)} :
        /\ Install(r.m)
        /\ pc' = IF r.next # None THEN "underflow"
                 ELSE IF Ok(r.m) THEN "root"
                 ELSE "idle"
        /\ cur' = r.next
        /\ UNCHANGED <<steps, start_ok, live>>

\* lines 392-400 of delete
RootCheck ==
    /\ pc = "root"
    /\ Install(delete_root_check(Machine))
    /\ pc' = "idle"
    /\ cur' = None
    /\ UNCHANGED <<steps, start_ok, live>>

NextSteps ==
    \/ \E key \in TreeKeyRange : StartInsert(key)
    \/ OverflowStep
    \/ \E key \in TreeKeyRange : StartDelete(key)
    \/ UnderflowStep
    \/ RootCheck

\* a call that has begun goes on: the program has one thread and no step
\* of a call waits for anything, so each step of a call is weakly fair.
\* OverflowStep changes pc or the machine whenever pc = "overflow", so
\* ENABLED <<OverflowStep>>_vars is pc = "overflow", and its weak
\* fairness is written with that condition in place of ENABLED
SpecSteps ==
    /\ InitTree
    /\ [][NextSteps]_vars
    /\ ([]<>(pc # "overflow") \/ []<><<OverflowStep>>_vars)
    /\ WF_vars(UnderflowStep)
    /\ WF_vars(RootCheck)

\* the reachable internal node that lists node_addr as a child
TreeParent(m, node_addr) ==
    LET holders == {p \in Reachable(m) :
                      /\ HasNode(m, p)
                      /\ ~read_node(m, p).is_leaf
                      /\ node_addr \in SeqRange(read_node(m, p).children)}
    IN  IF holders = {} THEN None ELSE CHOOSE p \in holders : TRUE

\* the number of child pointers from the root down to node_addr
RECURSIVE Level(_, _)
Level(m, node_addr) ==
    IF node_addr = m.root_addr \/ TreeParent(m, node_addr) = None THEN 0
    ELSE 1 + Level(m, TreeParent(m, node_addr))

\* a repair step that is followed by another one: the next call is for
\* the parent, one level up; no sibling took part in a compensation or a
\* borrowing; the parent is not the root and is out of bounds
RepairClimbs ==
    (pc \in {"overflow", "underflow"} /\ pc' = pc /\ start_ok) =>
        /\ cur' # None
        /\ cur' = TreeParent(Machine, cur)
        /\ cur' = index_file[cur].parent_addr
        /\ Level(Machine, cur') = Level(Machine, cur) - 1
        /\ cur' # root_addr'
        /\ pc = "underflow" =>
               /\ Lender(Machine, cur) = None
               /\ Len(index_file'[cur'].keys) < min_keys
        /\ pc = "overflow" =>
               /\ ~HasRoom(Machine, LeftSibling(Machine, cur))
               /\ ~HasRoom(Machine, RightSibling(Machine, cur))
               /\ Len(index_file'[cur'].keys) > max_keys

\* a repair is called for a node that is out of bounds
RepairIsDue ==
    /\ (pc = "underflow" /\ start_ok) =>
           /\ cur # root_addr
           /\ HasNode(Machine, cur)
           /\ Len(index_file[cur].keys) < min_keys
    /\ (pc = "overflow" /\ start_ok) =>
           /\ HasNode(Machine, cur)
           /\ Len(index_file[cur].keys) > max_keys

\* C26: every insert and every delete that has begun comes to its end
\* (by a return or by an exception); when the parent pointers were right
\* at its beginning, every call of _handle_overflow and of
\* _handle_underflow is for a node that is out of bounds, a call that
\* follows another one is for the parent of that node, one level higher
\* in the tree, so that no level is handled twice, and it is made only
\* when no compensation or borrowing was made at the level before and the
\* parent is out of bounds and not the root.
C26_RepairTerminates ==
    /\ []RepairIsDue
    /\ [][RepairClimbs]_vars
    /\ (pc # "idle") ~> (pc = "idle")

\* the repair after a delete has gone from a leaf to the internal node
\* above it
C26_Witness ==
    /\ pc = "underflow"
    /\ start_ok
    /\ HasNode(Machine, cur)
    /\ ~index_file[cur].is_leaf
    /\ Len(index_file[cur].keys) = min_keys - 1

====
